---- MODULE Spec2Model ----
(***************************************************************************)
(* A model of gmail-spam-cleaner: the scorer (scorer.py), the ranking used *)
(* by the scan display and the cleanup workflow (display.py, cleaner.py),  *)
(* the scan and its cache (scanner.py, cache.py), the paginated listing,   *)
(* the batched fetch and the batched discard (gmail_client.py) and the     *)
(* audit log (cleaner.py).                                                 *)
(*                                                                         *)
(* Scores are Python floats in the source.  They are modelled in           *)
(* hundredths (0.40 is 40): every sum calculate_score can form differs     *)
(* from its decimal value by at most one unit in the last place and none   *)
(* of the 32 sums crosses one of the thresholds 0.3, 0.5, 0.7 or 1.0, so   *)
(* every comparison of the source has the same outcome in hundredths.      *)
(*                                                                         *)
(* Text that the source inspects character by character (startswith,      *)
(* lower, strip, int) is a sequence of one-character strings; text that    *)
(* is only compared for equality is a TLA+ string.                         *)
(***************************************************************************)
EXTENDS Integers, Sequences, FiniteSets, TLC

VARIABLES
    \* --- scorer.py: one profile being scored and classified
    profile, scored, classification,
    \* --- classify_sender applied to a bare score
    probe_score, probe_class,
    \* --- ranking (display.py / cleaner.py) applied to a sender mapping
    rank_senders, rank_min_score, rank_pc, ranked_clean, ranked_display, ranked_export,
    reranked,
    \* --- persistent state: the sqlite cache, the audit log file, the mailbox provider;
    \*     saved is the history of the saves since the cache was last empty: the scan
    \*     date of each saved result, oldest first
    db, trash_log, acked, saved,
    \* --- one run of the scan: fetch, group, score, save, and the load that follows
    responses, scan_query, scan_pc, scan_messages, scan_i, scan_senders, score_passes,
    scan_saved, scan_loaded,
    \* --- the call of scan_mailbox itself: its use_cache argument, the calls it has made
    \*     on the provider and on the cache, and the result it returned
    scan_call,
    \* --- the last call made on the cache, and the number of scan results the last
    \*     clear() removed
    cache_call, dropped,
    \* --- one run of interactive_clean
    pc, scan_result, min_score, execute, profiles, displayed, selection,
    selected, all_message_ids, answer, trash, io, result, log_before,
    \* --- one call of fetch_message_metadata: the response the provider holds for each
    \*     requested id, and the locals of the call
    fetch_pc, fetch_responses, fetch,
    \* --- one call of list_message_ids: the pages the provider holds, the limit, and
    \*     the locals of the call
    list_pc, pages, max_results, listing

scorer_vars == <<profile, scored, classification>>
probe_vars == <<probe_score, probe_class>>
rank_vars == <<rank_senders, rank_min_score, rank_pc, ranked_clean, ranked_display,
               ranked_export, reranked>>
store_vars == <<db, trash_log, acked, saved>>
scan_vars == <<responses, scan_query, scan_pc, scan_messages, scan_i, scan_senders,
               score_passes, scan_saved, scan_loaded, scan_call>>
cache_vars == <<cache_call, dropped>>
clean_vars == <<pc, scan_result, min_score, execute, profiles, displayed, selection,
                selected, all_message_ids, answer, trash, io, result, log_before>>
fetch_vars == <<fetch_pc, fetch_responses, fetch>>
list_vars == <<list_pc, pages, max_results, listing>>
gmail_vars == <<fetch_vars, list_vars>>
vars == <<scorer_vars, probe_vars, rank_vars, store_vars, scan_vars, cache_vars, clean_vars,
          gmail_vars>>

\* Python's None where a string is expected, and where an object is expected.
None == "None"
Nothing == [nothing |-> TRUE]

(***************************************************************************)
(* Bounds of the model.                                                    *)
(***************************************************************************)
MaxMsgs == 2        \* messages of the profile handed to calculate_score
MaxRankSenders == 3 \* senders of the mapping handed to the ranking
MaxTokens == 2      \* comma-separated tokens of a typed selection
MaxFetched == 3     \* freely chosen responses of a scan
MaxScorePasses == 2 \* applications of score_all_senders to one mapping
MaxSaves == 3       \* scan results held by the cache at one time
MaxPages == 3       \* pages of a listing
MaxPageSize == 2    \* message ids on one page of a listing
MaxLimit == 4       \* largest max_results handed to list_message_ids

(***************************************************************************)
(* constants.py, in hundredths where the source has a float.               *)
(***************************************************************************)
TRASH_BATCH_SIZE == 1000
BATCH_SIZE == 50
WEIGHT_LIST_UNSUBSCRIBE == 40
WEIGHT_SENDER_PATTERN == 20
WEIGHT_PRECEDENCE_BULK == 15
WEIGHT_HIGH_VOLUME == 15
WEIGHT_CATEGORY_PROMOTIONS == 10
SCORE_NEWSLETTER == 70
SCORE_LIKELY_NEWSLETTER == 50
SCORE_UNCERTAIN == 30
HIGH_VOLUME_THRESHOLD == 10
SCORE_CAP == 100
STOP_AFTER_ATTEMPT == 5

AUTOMATED_SENDER_PATTERNS ==
    << <<"n","o","r","e","p","l","y","@">>,
       <<"n","o","-","r","e","p","l","y","@">>,
       <<"n","e","w","s","l","e","t","t","e","r","@">>,
       <<"n","e","w","s","l","e","t","t","e","r","s","@">>,
       <<"n","o","t","i","f","i","c","a","t","i","o","n","s","@">>,
       <<"n","o","t","i","f","i","c","a","t","i","o","n","@">>,
       <<"i","n","f","o","@">>,
       <<"m","a","i","l","e","r","@">>,
       <<"m","a","r","k","e","t","i","n","g","@">>,
       <<"n","e","w","s","@">>,
       <<"u","p","d","a","t","e","s","@">>,
       <<"u","p","d","a","t","e","@">>,
       <<"d","o","-","n","o","t","-","r","e","p","l","y","@">>,
       <<"d","o","n","o","t","r","e","p","l","y","@">>,
       <<"a","l","e","r","t","@">>,
       <<"a","l","e","r","t","s","@">>,
       <<"d","i","g","e","s","t","@">>,
       <<"h","e","l","l","o","@">>,
       <<"s","u","p","p","o","r","t","@">>,
       <<"t","e","a","m","@">>,
       <<"m","a","i","l","@">>,
       <<"b","o","u","n","c","e","@">>,
       <<"a","u","t","o","@">> >>

(***************************************************************************)
(* Python built-ins on text and numbers.                                   *)
(***************************************************************************)
Min(a, b) == IF a <= b THEN a ELSE b
Max(a, b) == IF a >= b THEN a ELSE b

Range(s) == {s[i] : i \in DOMAIN s}

UpperToLower ==
    [c \in {"A","B","C","D","E","F","G","H","I","J","K","L","M",
            "N","O","P","Q","R","S","T","U","V","W","X","Y","Z"} |->
        CASE c = "A" -> "a" [] c = "B" -> "b" [] c = "C" -> "c" [] c = "D" -> "d"
          [] c = "E" -> "e" [] c = "F" -> "f" [] c = "G" -> "g" [] c = "H" -> "h"
          [] c = "I" -> "i" [] c = "J" -> "j" [] c = "K" -> "k" [] c = "L" -> "l"
          [] c = "M" -> "m" [] c = "N" -> "n" [] c = "O" -> "o" [] c = "P" -> "p"
          [] c = "Q" -> "q" [] c = "R" -> "r" [] c = "S" -> "s" [] c = "T" -> "t"
          [] c = "U" -> "u" [] c = "V" -> "v" [] c = "W" -> "w" [] c = "X" -> "x"
          [] c = "Y" -> "y" [] c = "Z" -> "z"]

\* str.lower()
Lower(s) == [i \in DOMAIN s |-> IF s[i] \in DOMAIN UpperToLower THEN UpperToLower[s[i]] ELSE s[i]]

\* str.startswith(prefix)
StartsWith(s, prefix) ==
    /\ Len(prefix) <= Len(s)
    /\ SubSeq(s, 1, Len(prefix)) = prefix

(***************************************************************************)
(* scorer.py                                                               *)
(***************************************************************************)
PrecedenceBulkOrList(m) == Lower(m.precedence) \in {<<"b","u","l","k">>, <<"l","i","s","t">>}
HasListUnsubscribe(m) == m.has_list_unsubscribe
InPromotions(m) == \E i \in DOMAIN m.labels : m.labels[i] = "CATEGORY_PROMOTIONS"

calculate_score_strict_volume(p) ==
    LET t1 == IF \E k \in DOMAIN p.messages : HasListUnsubscribe(p.messages[k])
              THEN WEIGHT_LIST_UNSUBSCRIBE ELSE 0
        t2 == IF \E i \in DOMAIN AUTOMATED_SENDER_PATTERNS :
                    StartsWith(Lower(p.email), AUTOMATED_SENDER_PATTERNS[i])
              THEN t1 + WEIGHT_SENDER_PATTERN ELSE t1
        t3 == IF \E k \in DOMAIN p.messages : PrecedenceBulkOrList(p.messages[k])
              THEN t2 + WEIGHT_PRECEDENCE_BULK ELSE t2
        t4 == IF p.message_count > HIGH_VOLUME_THRESHOLD THEN t3 + WEIGHT_HIGH_VOLUME ELSE t3
        t5 == IF \E k \in DOMAIN p.messages : InPromotions(p.messages[k])
              THEN t4 + WEIGHT_CATEGORY_PROMOTIONS ELSE t4
    IN  Min(t5, SCORE_CAP)

calculate_score(p) ==
    LET t0 == 0
        t1 == IF \E k \in DOMAIN p.messages : HasListUnsubscribe(p.messages[k])
              THEN t0 + WEIGHT_LIST_UNSUBSCRIBE ELSE t0
        t2 == IF \E i \in DOMAIN AUTOMATED_SENDER_PATTERNS :
                    StartsWith(Lower(p.email), AUTOMATED_SENDER_PATTERNS[i])
              THEN t1 + WEIGHT_SENDER_PATTERN ELSE t1
        t3 == IF \E k \in DOMAIN p.messages : PrecedenceBulkOrList(p.messages[k])
              THEN t2 + WEIGHT_PRECEDENCE_BULK ELSE t2
        t4 == IF p.message_count >= HIGH_VOLUME_THRESHOLD THEN t3 + WEIGHT_HIGH_VOLUME ELSE t3
        t5 == IF \E k \in DOMAIN p.messages : InPromotions(p.messages[k])
              THEN t4 + WEIGHT_CATEGORY_PROMOTIONS ELSE t4
    IN  Min(t5, SCORE_CAP)

classify_sender_exclusive(s) ==
    IF s > SCORE_NEWSLETTER THEN "newsletter"
    ELSE IF s > SCORE_LIKELY_NEWSLETTER THEN "likely_newsletter"
    ELSE IF s > SCORE_UNCERTAIN THEN "uncertain"
    ELSE "personal"

classify_sender(s) ==
    IF s >= SCORE_NEWSLETTER THEN "newsletter"
    ELSE IF s >= SCORE_LIKELY_NEWSLETTER THEN "likely_newsletter"
    ELSE IF s >= SCORE_UNCERTAIN THEN "uncertain"
    ELSE "personal"

(***************************************************************************)
(* models.py                                                               *)
(***************************************************************************)
MessageMeta(message_id, sender, sender_email, subject, labels, has_list_unsubscribe, precedence, date) ==
    [message_id |-> message_id, sender |-> sender, sender_email |-> sender_email,
     subject |-> subject, labels |-> labels,
     has_list_unsubscribe |-> has_list_unsubscribe, precedence |-> precedence,
     date |-> date]

SenderProfile(email, name, message_count, messages, score, sample_subjects) ==
    [email |-> email, name |-> name, message_count |-> message_count,
     messages |-> messages, score |-> score, sample_subjects |-> sample_subjects]

ScanResult(total_messages, senders, scan_date, query) ==
    [total_messages |-> total_messages, senders |-> senders, scan_date |-> scan_date,
     query |-> query]

\* All sequences over S of length at most n.
SeqUpTo(S, n) == UNION {[1..k -> S] : k \in 0..n}

(***************************************************************************)
(* Ranking: the filter and sort shared by display_scan_results and         *)
(* interactive_clean.  A Python dict is a sequence of its values in        *)
(* insertion order; sorted() and list.sort() are stable.                   *)
(***************************************************************************)
ClassOrder(c) ==
    CASE c = "newsletter" -> 0
      [] c = "likely_newsletter" -> 1
      [] c = "uncertain" -> 2
      [] OTHER -> 3

\* A variant ordering larger senders last within a class.
SortKeyAscendingCount(p) == <<ClassOrder(classify_sender(p.score)), p.message_count>>

\* key=lambda p: (_CLASS_ORDER.get(classify_sender(p.score), 3), -p.message_count)
SortKey(p) == <<ClassOrder(classify_sender(p.score)), -p.message_count>>

\* Python's tuple comparison a < b on pairs.
TupleLess(a, b) == a[1] < b[1] \/ (a[1] = b[1] /\ a[2] < b[2])

\* One step of a stable sort: x goes after every element whose key is not greater.
InsertByKey(sorted, x) ==
    LET n == Cardinality({i \in DOMAIN sorted : ~TupleLess(SortKey(x), SortKey(sorted[i]))})
    IN  SubSeq(sorted, 1, n) \o <<x>> \o SubSeq(sorted, n + 1, Len(sorted))

RECURSIVE SortedByKey(_)
SortedByKey(seq) ==
    IF seq = <<>> THEN <<>>
    ELSE InsertByKey(SortedByKey(SubSeq(seq, 1, Len(seq) - 1)), seq[Len(seq)])

\* A variant that takes min_score as the only floor.
clean_profiles_no_floor(senders, ms) ==
    LET Keep(p) == p.score >= ms
    IN  SortedByKey(SelectSeq(senders, Keep))

\* cleaner.py: profiles = sorted([p for p in ... if p.score >= max(min_score, SCORE_UNCERTAIN)], key=...)
clean_profiles(senders, ms) ==
    LET Keep(p) == p.score >= Max(ms, SCORE_UNCERTAIN)
    IN  SortedByKey(SelectSeq(senders, Keep))

\* A variant of the table that keeps the order of the mapping.
display_profiles_unsorted(senders, ms) ==
    LET Keep(p) == p.score >= Max(ms, SCORE_UNCERTAIN)
    IN  SelectSeq(senders, Keep)

\* display.py: the rows of the table, in order
display_profiles(senders, ms) ==
    LET Keep(p) == p.score >= Max(ms, SCORE_UNCERTAIN)
    IN  SortedByKey(SelectSeq(senders, Keep))

\* export.py 20-24: senders_sorted, the rows of the exported file in order
export_profiles(senders) ==
    LET Keep(s) == s.score >= SCORE_UNCERTAIN
    IN  SortedByKey(SelectSeq(senders, Keep))

(***************************************************************************)
(* cache.py: the three tables of the sqlite file, and sqlite_sequence      *)
(* (seq), which AUTOINCREMENT reads for the next scan id.                  *)
(***************************************************************************)
EmptyDb == [scan_metadata |-> <<>>, senders |-> <<>>, messages |-> <<>>, seq |-> 0]

\* json.dumps / json.loads of a list of strings
JsonDumps(v) == [json |-> v]
JsonLoads(t) == t.json

\* int(bool) and bool(int)
BoolToInt(b) == IF b THEN 1 ELSE 0
IntToBool(i) == i # 0

SenderRow(scan_id, p) ==
    [scan_id |-> scan_id, email |-> p.email, name |-> p.name,
     message_count |-> p.message_count, score |-> p.score,
     sample_subjects_json |-> JsonDumps(p.sample_subjects)]

MessageRow(scan_id, m) ==
    [scan_id |-> scan_id, message_id |-> m.message_id, sender_email |-> m.sender_email,
     subject |-> m.subject, has_list_unsubscribe |-> BoolToInt(m.has_list_unsubscribe),
     precedence |-> m.precedence, labels_json |-> JsonDumps(m.labels), date |-> m.date]

\* A variant that writes the messages of the first profile only.
MessageRowsOfFirst(scan_id, senders) ==
    IF senders = <<>> THEN <<>>
    ELSE [i \in DOMAIN senders[1].messages |-> MessageRow(scan_id, senders[1].messages[i])]

RECURSIVE MessageRowsOf(_, _)
MessageRowsOf(scan_id, senders) ==
    IF senders = <<>> THEN <<>>
    ELSE [i \in DOMAIN senders[1].messages |-> MessageRow(scan_id, senders[1].messages[i])]
         \o MessageRowsOf(scan_id, Tail(senders))

\* A variant that keeps one snapshot per query: the rows of an earlier scan under the
\* same query are deleted before the new ones are inserted.
save_scan_replacing(d, sr) ==
    LET scan_id == d.seq + 1
        stale == {r.id : r \in {o \in Range(d.scan_metadata) : o.query = sr.query}}
        KeptMeta(r) == r.id \notin stale
        Kept(r) == r.scan_id \notin stale
    IN  [scan_metadata |-> Append(SelectSeq(d.scan_metadata, KeptMeta),
                                  [id |-> scan_id, query |-> sr.query,
                                   total_messages |-> sr.total_messages,
                                   scan_date |-> sr.scan_date]),
         senders |-> SelectSeq(d.senders, Kept)
                     \o [i \in DOMAIN sr.senders |-> SenderRow(scan_id, sr.senders[i])],
         messages |-> SelectSeq(d.messages, Kept) \o MessageRowsOf(scan_id, sr.senders),
         seq |-> scan_id]

save_scan(d, sr) ==
    LET scan_id == d.seq + 1
    IN  [scan_metadata |-> Append(d.scan_metadata,
                                  [id |-> scan_id, query |-> sr.query,
                                   total_messages |-> sr.total_messages,
                                   scan_date |-> sr.scan_date]),
         senders |-> d.senders \o [i \in DOMAIN sr.senders |-> SenderRow(scan_id, sr.senders[i])],
         messages |-> d.messages \o MessageRowsOf(scan_id, sr.senders),
         seq |-> scan_id]

\* A variant that takes the row with the smallest id.
LatestRowAscending(rows) ==
    IF rows = <<>> THEN Nothing
    ELSE CHOOSE r \in Range(rows) : \A o \in Range(rows) : r.id <= o.id

\* ORDER BY id DESC LIMIT 1 over the given rows; Nothing when there is no row
LatestRow(rows) ==
    IF rows = <<>> THEN Nothing
    ELSE CHOOSE r \in Range(rows) : \A o \in Range(rows) : o.id <= r.id

\* senders[email] = profile on a dict kept as a sequence of its values
DictPut(senders, p) ==
    IF \E i \in DOMAIN senders : senders[i].email = p.email
    THEN [i \in DOMAIN senders |-> IF senders[i].email = p.email THEN p ELSE senders[i]]
    ELSE Append(senders, p)

RECURSIVE DictOf(_)
DictOf(ps) ==
    IF ps = <<>> THEN <<>>
    ELSE DictPut(DictOf(SubSeq(ps, 1, Len(ps) - 1)), ps[Len(ps)])

load_latest_scan(d, query) ==
    LET Matches(r) == r.query = query
        row == IF query # None THEN LatestRow(SelectSeq(d.scan_metadata, Matches))
               ELSE LatestRow(d.scan_metadata)
    IN  IF row = Nothing THEN Nothing
        ELSE
          LET InScan(r) == r.scan_id = row.id
              sender_rows == SelectSeq(d.senders, InScan)
              message_rows == SelectSeq(d.messages, InScan)
              MetaOf(m) == MessageMeta(m.message_id, "", m.sender_email, m.subject,
                                       JsonLoads(m.labels_json),
                                       IntToBool(m.has_list_unsubscribe), m.precedence,
                                       m.date)
              MessagesOf(email) ==
                  LET From(m) == m.sender_email = email
                      rows == SelectSeq(message_rows, From)
                  IN  [i \in DOMAIN rows |-> MetaOf(rows[i])]
              ProfileOf(s) == SenderProfile(s.email, s.name, s.message_count,
                                            MessagesOf(s.email), s.score,
                                            JsonLoads(s.sample_subjects_json))
          IN  ScanResult(row.total_messages,
                         DictOf([i \in DOMAIN sender_rows |-> ProfileOf(sender_rows[i])]),
                         row.scan_date,
                         row.query)

\* A variant that reads the messages of every stored scan.
get_message_ids_for_sender_any_scan(d, email) ==
    LET Hit(m) == m.sender_email = email
        rows == SelectSeq(d.messages, Hit)
    IN  [i \in DOMAIN rows |-> rows[i].message_id]

get_message_ids_for_sender(d, email) ==
    LET row == LatestRow(d.scan_metadata)
    IN  IF row = Nothing THEN <<>>
        ELSE
          LET Hit(m) == m.scan_id = row.id /\ m.sender_email = email
              rows == SelectSeq(d.messages, Hit)
          IN  [i \in DOMAIN rows |-> rows[i].message_id]

(***************************************************************************)
(* cleaner.py: the typed selection.  The line is kept as the sequence of   *)
(* its comma-separated tokens, which is what selection.split(",") yields.  *)
(***************************************************************************)
Whitespace == {" ", "\t"}

\* str.strip()
Strip(s) ==
    LET kept == {i \in DOMAIN s : s[i] \notin Whitespace}
    IN  IF kept = {} THEN <<>>
        ELSE LET lo == CHOOSE i \in kept : \A j \in kept : i <= j
                 hi == CHOOSE i \in kept : \A j \in kept : j <= i
             IN  SubSeq(s, lo, hi)

Digits == <<"0", "1", "2", "3", "4", "5", "6", "7", "8", "9">>

DigitValue(c) == (CHOOSE i \in DOMAIN Digits : Digits[i] = c) - 1

RECURSIVE DigitsValue(_)
DigitsValue(ds) ==
    IF ds = <<>> THEN 0
    ELSE DigitsValue(SubSeq(ds, 1, Len(ds) - 1)) * 10 + DigitValue(ds[Len(ds)])

\* int(x.strip()): ok is FALSE where Python raises ValueError
ParseInt(x) ==
    LET t == Strip(x)
        signed == t # <<>> /\ t[1] \in {"+", "-"}
        body == IF signed THEN Tail(t) ELSE t
        ok == body # <<>> /\ \A i \in DOMAIN body : body[i] \in Range(Digits)
    IN  [ok |-> ok,
         value |-> IF ~ok THEN 0
                   ELSE IF signed /\ t[1] = "-" THEN -DigitsValue(body)
                   ELSE DigitsValue(body)]

\* selection.lower() == word, selection being the stripped line
SelectionIs(sel, word) == Len(sel) = 1 /\ Lower(Strip(sel[1])) = word

\* cleaner.py 93-101: ok is FALSE on the "Invalid selection." path
parse_selection(sel, ps) ==
    IF SelectionIs(sel, <<"a","l","l">>) THEN [ok |-> TRUE, selected |-> ps]
    ELSE IF \E k \in DOMAIN sel : ~ParseInt(sel[k]).ok
         THEN [ok |-> FALSE, selected |-> <<>>]
         ELSE LET indices == [k \in DOMAIN sel |-> ParseInt(sel[k]).value - 1]
                  InRange(i) == 0 <= i /\ i < Len(ps)
                  kept == SelectSeq(indices, InRange)
              IN  [ok |-> TRUE, selected |-> [k \in DOMAIN kept |-> ps[kept[k] + 1]]]

\* cleaner.py 113-117: the ids of the selected senders, in selection order
RECURSIVE collect_message_ids(_, _)
collect_message_ids(d, sel) ==
    IF sel = <<>> THEN <<>>
    ELSE get_message_ids_for_sender(d, sel[1].email) \o collect_message_ids(d, Tail(sel))

Summary(n_selected, total, trashed) ==
    [selected_senders |-> n_selected, total_messages |-> total, trashed |-> trashed]

\* A variant of the dry-run test that always goes on to the confirmation.
after_resolve_always_confirm(ex) == "confirm"

\* cleaner.py 122-131: a dry run returns after resolving
after_resolve(ex) == IF ~ex THEN "done" ELSE "confirm"

\* A variant that ignores letter case.
confirm_trash_any_case(ans) == ans \in {"TRASH", "trash", "Trash"}

\* display.py 124-125: answer == "TRASH"
confirm_trash(ans) == ans = "TRASH"

(***************************************************************************)
(* gmail_client.py: trash_messages and the retry around batchModify.       *)
(***************************************************************************)
\* A variant that also retries a permission error.
is_retryable_http_error_with_403(status) == status \in {429, 500, 503, 403}

\* _is_retryable_http_error
is_retryable_http_error(status) == status \in {429, 500, 503}

\* (len(message_ids) + TRASH_BATCH_SIZE - 1) // TRASH_BATCH_SIZE, at least 1
total_batches_of(ids) == Max(1, (Len(ids) + TRASH_BATCH_SIZE - 1) \div TRASH_BATCH_SIZE)

\* A variant whose batches overlap by one id.
chunk_of_overlapping(ids, batch_num) ==
    LET start == batch_num * TRASH_BATCH_SIZE
        end == Min(start + TRASH_BATCH_SIZE + 1, Len(ids))
    IN  SubSeq(ids, start + 1, end)

\* message_ids[start:end] of batch batch_num (0-based)
chunk_of(ids, batch_num) ==
    LET start == batch_num * TRASH_BATCH_SIZE
        end == Min(start + TRASH_BATCH_SIZE, Len(ids))
    IN  SubSeq(ids, start + 1, end)

\* Where the for loop stands before batch batch_num: at the request for its chunk,
\* or past the loop (range exhausted, or "if not chunk: break").
trash_loop_pc(ids, batch_num) ==
    IF batch_num < total_batches_of(ids) /\ chunk_of(ids, batch_num) # <<>>
    THEN "trash" ELSE "returned"

\* The locals of trash_messages on entry.
trash_entry(ids) ==
    [total_batches |-> total_batches_of(ids), batch_num |-> 0, trashed |-> 0,
     attempt |-> 1, status |-> 0, submitted |-> <<>>, callbacks |-> <<>>, error |-> 0]

NoTrash == [total_batches |-> 0, batch_num |-> 0, trashed |-> 0, attempt |-> 0,
            status |-> 0, submitted |-> <<>>, callbacks |-> <<>>, error |-> 0]

(***************************************************************************)
(* cleaner.py: _save_trash_log.  The file is absent or holds the JSON list *)
(* an earlier run wrote; strings, integers and lists of them come back     *)
(* from json.load as json.dump wrote them.                                 *)
(***************************************************************************)
LogEntry(sel, ids) ==
    [date |-> "now",
     senders |-> [i \in DOMAIN sel |-> [email |-> sel[i].email, name |-> sel[i].name,
                                        message_count |-> sel[i].message_count]],
     total_messages |-> Len(ids),
     message_ids |-> ids]

\* A variant that rewrites the file with the new entry alone.
save_trash_log_overwrite(file, sel, ids) ==
    [exists |-> TRUE, entries |-> <<LogEntry(sel, ids)>>]

save_trash_log(file, sel, ids) ==
    LET log == IF file.exists THEN file.entries ELSE <<>>
    IN  [exists |-> TRUE, entries |-> Append(log, LogEntry(sel, ids))]

(***************************************************************************)
(* gmail_client.py: _parse_from_header and the callback of                 *)
(* fetch_message_metadata.  A response is what the provider returned for   *)
(* one message id: ok is FALSE when the callback gets an exception.        *)
(***************************************************************************)
\* str.strip(chars)
StripChars(s, chars) ==
    LET kept == {i \in DOMAIN s : s[i] \notin chars}
    IN  IF kept = {} THEN <<>>
        ELSE LET lo == CHOOSE i \in kept : \A j \in kept : i <= j
                 hi == CHOOSE i \in kept : \A j \in kept : j <= i
             IN  SubSeq(s, lo, hi)

\* .strip().strip('"').strip("'")
Unquote(s) == StripChars(StripChars(Strip(s), {"\""}), {"'"})

\* _FROM_RE = ^(.*?)\s*<([^>]+)>$ : the lazy prefix stops at the first "<" from which
\* a non-empty run without ">" reaches a final ">".
FromReOpenings(s) ==
    {k \in DOMAIN s : /\ s[k] = "<"
                      /\ s[Len(s)] = ">"
                      /\ k + 1 <= Len(s) - 1
                      /\ \A j \in (k + 1)..(Len(s) - 1) : s[j] # ">"}

parse_from_header(from_value) ==
    IF from_value = <<>> THEN [name |-> <<>>, email |-> <<>>]
    ELSE LET s == Strip(from_value)
         IN  IF FromReOpenings(s) # {}
             THEN LET k == CHOOSE i \in FromReOpenings(s) : \A j \in FromReOpenings(s) : i <= j
                  IN  [name |-> Unquote(SubSeq(s, 1, k - 1)),
                       email |-> Strip(SubSeq(s, k + 1, Len(s) - 1))]
             ELSE [name |-> <<>>, email |-> StripChars(s, {"<", ">"})]

\* A variant of the callback that keeps the address as the header spells it.
meta_of_response_keep_case(msg_id, response) ==
    MessageMeta(msg_id, response.From, parse_from_header(response.From).email,
                response.Subject, response.labelIds, response.ListUnsubscribe,
                Lower(response.Precedence), response.Date)

\* The MessageMeta the callback builds from the response for msg_id.
meta_of_response(msg_id, response) ==
    MessageMeta(msg_id, response.From, Lower(parse_from_header(response.From).email),
                response.Subject, response.labelIds, response.ListUnsubscribe,
                Lower(response.Precedence), response.Date)

\* results, for message ids 1..Len(resps) answered by resps: a failed response adds
\* nothing.
RECURSIVE fetch_message_metadata(_)
fetch_message_metadata(resps) ==
    IF resps = <<>> THEN <<>>
    ELSE LET n == Len(resps)
             before == fetch_message_metadata(SubSeq(resps, 1, n - 1))
         IN  IF resps[n].ok THEN Append(before, meta_of_response(n, resps[n]))
             ELSE before

\* (len(message_ids) + BATCH_SIZE - 1) // BATCH_SIZE
fetch_total_batches(n) == (n + BATCH_SIZE - 1) \div BATCH_SIZE

\* message_ids[start:end] of batch batch_num (0-based), the requested ids being 1..n
fetch_chunk(n, batch_num) ==
    LET start == batch_num * BATCH_SIZE
        end == Min(start + BATCH_SIZE, n)
    IN  [k \in 1..(end - start) |-> start + k]

\* A variant in which the first failed message ends the processing of its batch.
batch_results_until_failure(resps, chunk) ==
    LET failed == {k \in DOMAIN chunk : ~resps[chunk[k]].ok}
        upto == IF failed = {} THEN Len(chunk)
                ELSE (CHOOSE k \in failed : \A j \in failed : k <= j) - 1
    IN  [k \in 1..upto |-> meta_of_response(chunk[k], resps[chunk[k]])]

\* What the callbacks of one executed batch append to results, in request order.
batch_results(resps, chunk) ==
    LET answered == SelectSeq(chunk, LAMBDA i : resps[i].ok)
    IN  [k \in DOMAIN answered |-> meta_of_response(answered[k], resps[answered[k]])]

\* Where the for loop of fetch_message_metadata stands before batch batch_num.
fetch_loop_pc(n, batch_num) ==
    IF batch_num < fetch_total_batches(n) THEN "batch" ELSE "returned"

\* The locals of fetch_message_metadata on entry.
fetch_entry(n) ==
    [total_batches |-> fetch_total_batches(n), batch_num |-> 0, attempt |-> 1,
     status |-> 0, results |-> <<>>, submitted |-> <<>>, callbacks |-> <<>>, error |-> 0]

(***************************************************************************)
(* scanner.py: group_by_sender, one iteration of its loop at a time, and   *)
(* scorer.py: score_all_senders.                                           *)
(***************************************************************************)
SAMPLE_SUBJECTS_LIMIT == 5

\* msg.sender.split("<")[0].strip().strip('"').strip("'") if "<" in msg.sender else ""
name_of_sender(sender) ==
    IF \E i \in DOMAIN sender : sender[i] = "<"
    THEN LET k == CHOOSE i \in DOMAIN sender :
                      sender[i] = "<" /\ \A j \in 1..(i - 1) : sender[j] # "<"
         IN  Unquote(SubSeq(sender, 1, k - 1))
    ELSE <<>>

\* A variant that takes the name of the latest message carrying one.
add_message_rename(p, msg) ==
    [p EXCEPT !.messages = Append(@, msg),
              !.message_count = @ + 1,
              !.sample_subjects = IF Len(@) < SAMPLE_SUBJECTS_LIMIT /\ msg.subject # ""
                                  THEN Append(@, msg.subject) ELSE @,
              !.name = IF name_of_sender(msg.sender) # <<>>
                       THEN name_of_sender(msg.sender) ELSE @]

\* A variant in which an empty subject takes a sample slot.
add_message_sample_any(p, msg) ==
    [p EXCEPT !.messages = Append(@, msg),
              !.message_count = @ + 1,
              !.sample_subjects = IF Len(@) < SAMPLE_SUBJECTS_LIMIT
                                  THEN Append(@, msg.subject) ELSE @]

\* A variant that counts only the messages met while subjects are still sampled.
add_message_count_sampled(p, msg) ==
    [p EXCEPT !.messages = Append(@, msg),
              !.message_count = IF Len(p.sample_subjects) < SAMPLE_SUBJECTS_LIMIT
                                THEN @ + 1 ELSE @,
              !.sample_subjects = IF Len(@) < SAMPLE_SUBJECTS_LIMIT /\ msg.subject # ""
                                  THEN Append(@, msg.subject) ELSE @]

\* profile.messages.append(msg); profile.message_count += 1; the subject is sampled
\* while fewer than SAMPLE_SUBJECTS_LIMIT are held and it is not empty
add_message(p, msg) ==
    [p EXCEPT !.messages = Append(@, msg),
              !.message_count = @ + 1,
              !.sample_subjects = IF Len(@) < SAMPLE_SUBJECTS_LIMIT /\ msg.subject # ""
                                  THEN Append(@, msg.subject) ELSE @]

\* The body of the loop of group_by_sender for one message.
group_step(senders, msg) ==
    LET email == msg.sender_email
        known == \E i \in DOMAIN senders : senders[i].email = email
        with == IF known THEN senders
                ELSE Append(senders, SenderProfile(email, name_of_sender(msg.sender), 0,
                                                   <<>>, 0, <<>>))
    IN  [i \in DOMAIN with |-> IF with[i].email = email THEN add_message(with[i], msg)
                               ELSE with[i]]

\* A variant that adds the value of calculate_score to the score already held.
score_all_senders_accumulate(senders) ==
    [i \in DOMAIN senders |->
        [senders[i] EXCEPT !.score = Min(@ + calculate_score(senders[i]), SCORE_CAP)]]

score_all_senders(senders) ==
    [i \in DOMAIN senders |-> [senders[i] EXCEPT !.score = calculate_score(senders[i])]]

\* A variant that empties the senders and messages tables only.
clear_keep_metadata(d) == [d EXCEPT !.senders = <<>>, !.messages = <<>>]

\* clear(): the three tables are dropped, and with scan_metadata its AUTOINCREMENT
\* counter, and created again
clear(d) == EmptyDb

(***************************************************************************)
(* Inputs of the cleanup workflow.                                         *)
(***************************************************************************)
\* n messages of one sender, with ids base+1 .. base+n
MessagesFrom(email, base, n) ==
    [i \in 1..n |-> MessageMeta(base + i, "", email, "s", <<"INBOX">>, FALSE, "", "d")]

\* The senders a scan may have found, in the order the scan met them: a personal
\* sender, a newsletter with one message more than a discard batch holds, and a
\* sender exactly on the uncertain threshold.
PoolSenders ==
    << SenderProfile("alice.smith@gmail.com", "Alice Smith", 3,
                     MessagesFrom("alice.smith@gmail.com", 10000, 3), 25, <<"s">>),
       SenderProfile("noreply@example-newsletter.com", "Newsletter Team",
                     TRASH_BATCH_SIZE + 1,
                     MessagesFrom("noreply@example-newsletter.com", 20000,
                                  TRASH_BATCH_SIZE + 1),
                     SCORE_CAP, <<"s">>),
       SenderProfile("info@shop.example", "", 2,
                     MessagesFrom("info@shop.example", 30000, 2),
                     SCORE_UNCERTAIN, <<"s">>) >>

RECURSIVE SumSeq(_)
SumSeq(ns) == IF ns = <<>> THEN 0 ELSE ns[1] + SumSeq(Tail(ns))

RECURSIVE SumCounts(_)
SumCounts(ps) == IF ps = <<>> THEN 0 ELSE ps[1].message_count + SumCounts(Tail(ps))

\* The scan result holding the pool senders with the given indices.
ScanOfPool(S) ==
    LET idx == SelectSeq([i \in DOMAIN PoolSenders |-> i], LAMBDA i : i \in S)
        ps == [k \in DOMAIN idx |-> PoolSenders[idx[k]]]
    IN  ScanResult(SumCounts(ps), ps, "t2 " \o ToString(S), "")

\* An earlier scan under another query, still stored in the cache.
OlderScan ==
    ScanResult(2,
               << SenderProfile("noreply@example-newsletter.com", "Newsletter Team", 1,
                                MessagesFrom("noreply@example-newsletter.com", 40000, 1),
                                55, <<"s">>),
                  SenderProfile("info@shop.example", "", 1,
                                MessagesFrom("info@shop.example", 50000, 1), 15, <<"s">>) >>,
               "t1", "older_than:1y")

\* An audit log left by an earlier run.
PriorLog ==
    [exists |-> TRUE,
     entries |-> << [date |-> "then",
                     senders |-> << [email |-> "info@shop.example", name |-> "",
                                     message_count |-> 1] >>,
                     total_messages |-> 1,
                     message_ids |-> <<50001>>] >>]

AbsentLog == [exists |-> FALSE, entries |-> <<>>]

MinScoreChoices == {-10, 0, SCORE_LIKELY_NEWSLETTER, SCORE_CAP}

TokenChoices == { <<"1">>, <<" ", "2">>, <<"0">>, <<"x">> }

SelectionChoices ==
    { <<<<"q">>>>, <<<<"a","l","l">>>>, <<<<"A","l","l"," ">>>> }
    \cup (SeqUpTo(TokenChoices, MaxTokens) \ {<<>>})

AnswerChoices == {"TRASH", "trash", "yes", ""}

\* HTTP status of one batchModify request
StatusChoices == {200, 429, 500, 503, 403}

\* Within the whole workflow: success, one transient error, one permanent error
WorkflowStatusChoices == {200, 503, 403}

(***************************************************************************)
(* The state of the parts a specification does not exercise.               *)
(***************************************************************************)
ScorerIdle == profile = Nothing /\ scored = FALSE /\ classification = None
ProbeIdle == probe_score = 0 /\ probe_class = None
RankIdle ==
    /\ rank_senders = <<>> /\ rank_min_score = 0 /\ rank_pc = "idle"
    /\ ranked_clean = <<>> /\ ranked_display = <<>> /\ ranked_export = <<>>
    /\ reranked = <<>>
StoreIdle == db = EmptyDb /\ trash_log = AbsentLog /\ acked = <<>> /\ saved = <<>>
ScanIdle ==
    /\ responses = <<>> /\ scan_query = None /\ scan_pc = "idle" /\ scan_messages = <<>>
    /\ scan_i = 0 /\ scan_senders = <<>> /\ score_passes = 0
    /\ scan_saved = Nothing /\ scan_loaded = Nothing
    /\ scan_call = [use_cache |-> FALSE, lists |-> 0, fetches |-> 0, saves |-> 0,
                    returned |-> Nothing]
NoCall == [op |-> "none", arg |-> None, out |-> <<>>]
CacheIdle == cache_call = NoCall /\ dropped = 0
FetchIdle ==
    /\ fetch_pc = "idle" /\ fetch_responses = <<>>
    /\ fetch = [total_batches |-> 0, batch_num |-> 0, attempt |-> 0, status |-> 0,
                results |-> <<>>, submitted |-> <<>>, callbacks |-> <<>>, error |-> 0]
ListIdle ==
    /\ list_pc = "idle" /\ pages = <<>> /\ max_results = <<>>
    /\ listing = [ids |-> <<>>, page |-> 0, out |-> <<>>]
GmailIdle == FetchIdle /\ ListIdle
CleanIdle ==
    /\ pc = "idle" /\ scan_result = Nothing /\ min_score = 0 /\ execute = FALSE
    /\ profiles = <<>> /\ displayed = <<>> /\ selection = <<>> /\ selected = <<>>
    /\ all_message_ids = <<>> /\ answer = None /\ trash = NoTrash
    /\ io = [prompts |-> 0, trash_calls |-> 0, log_writes |-> 0]
    /\ result = Nothing /\ log_before = AbsentLog

(***************************************************************************)
(* The cleanup workflow: cli.clean and interactive_clean.  Lists of        *)
(* profiles hold references to the profiles of scan_result.senders; the    *)
(* state keeps them as the profiles' keys.                                 *)
(***************************************************************************)
KeysOf(ps) == [i \in DOMAIN ps |-> ps[i].email]

ProfileAt(sr, email) ==
    sr.senders[CHOOSE i \in DOMAIN sr.senders : sr.senders[i].email = email]

ProfilesOf(sr, keys) == [i \in DOMAIN keys |-> ProfileAt(sr, keys[i])]

\* The saves that preceded the cleanup: an older scan under another query and then a
\* scan of any part of the pool, or the two the other way round.
WorkflowHistories ==
    {<<OlderScan, ScanOfPool(S)>> : S \in SUBSET DOMAIN PoolSenders}
    \cup {<<ScanOfPool(DOMAIN PoolSenders), OlderScan>>}

DatesOf(scans) == [i \in DOMAIN scans |-> scans[i].scan_date]

\* The cache file after the given scan results were saved into an empty cache.
RECURSIVE db_after(_)
db_after(scans) ==
    IF scans = <<>> THEN EmptyDb
    ELSE save_scan(db_after(SubSeq(scans, 1, Len(scans) - 1)), scans[Len(scans)])

InitClean ==
    /\ ScorerIdle /\ ProbeIdle /\ RankIdle /\ ScanIdle /\ CacheIdle /\ GmailIdle
    /\ \E scans \in WorkflowHistories :
          /\ saved = DatesOf(scans)
          /\ db = db_after(scans)
    /\ trash_log \in {AbsentLog, PriorLog}
    /\ acked = <<>>
    /\ pc = "start" /\ scan_result = Nothing /\ min_score = 0 /\ execute = FALSE
    /\ profiles = <<>> /\ displayed = <<>> /\ selection = <<>> /\ selected = <<>>
    /\ all_message_ids = <<>> /\ answer = None /\ trash = NoTrash
    /\ io = [prompts |-> 0, trash_calls |-> 0, log_writes |-> 0]
    /\ result = Nothing /\ log_before = trash_log

\* cleaner.py 53-87: interactive_clean is entered with the scan result its caller got
\* from the cache for the given query (None: the latest of all); rank, show the table.
CleanCall(query, ms, ex) ==
    /\ pc = "start"
    /\ load_latest_scan(db, query) # Nothing
    /\ scan_result' = load_latest_scan(db, query)
    /\ min_score' = ms
    /\ execute' = ex
    /\ profiles' = KeysOf(clean_profiles(scan_result'.senders, ms))
    /\ IF profiles' = <<>>
       THEN /\ result' = Summary(0, 0, 0)
            /\ displayed' = displayed
            /\ pc' = "done"
       ELSE /\ displayed' = KeysOf(display_profiles(scan_result'.senders, ms))
            /\ result' = result
            /\ pc' = "select"
    /\ UNCHANGED <<selection, selected, all_message_ids, answer, trash, io, log_before>>
    /\ UNCHANGED <<scorer_vars, probe_vars, rank_vars, store_vars>>
    /\ UNCHANGED <<scan_vars, cache_vars, gmail_vars>>

\* cli.py 45-79: clean loads the latest scan and enters interactive_clean with it.
CleanStart(ms, ex) == CleanCall(None, ms, ex)

\* cleaner.py 87-131: read the selection, resolve the ids, stop here on a dry run.
Select(sel) ==
    /\ pc = "select"
    /\ selection' = sel
    /\ IF SelectionIs(sel, <<"q">>)
       THEN /\ result' = Summary(0, 0, 0)
            /\ pc' = "done"
            /\ UNCHANGED <<selected, all_message_ids>>
       ELSE LET parsed == parse_selection(sel, profiles)
            IN  IF ~parsed.ok \/ parsed.selected = <<>>
                THEN /\ result' = Summary(0, 0, 0)
                     /\ pc' = "done"
                     /\ UNCHANGED <<selected, all_message_ids>>
                ELSE /\ selected' = parsed.selected
                     /\ all_message_ids' =
                            collect_message_ids(db, ProfilesOf(scan_result, selected'))
                     /\ pc' = after_resolve(execute)
                     /\ result' = IF pc' = "done"
                                  THEN Summary(Len(selected'), Len(all_message_ids'), 0)
                                  ELSE result
    /\ UNCHANGED <<scan_result, min_score, execute, profiles, displayed, answer, trash, io,
                   log_before>>
    /\ UNCHANGED <<scorer_vars, probe_vars, rank_vars, store_vars>>
    /\ UNCHANGED <<scan_vars, cache_vars, gmail_vars>>

\* cleaner.py 133-146 and gmail_client.py 163-171: ask for the confirmation and, when
\* it is given, enter trash_messages.
Confirm(ans) ==
    /\ pc = "confirm"
    /\ answer' = ans
    /\ IF ~confirm_trash(ans)
       THEN /\ result' = Summary(Len(selected), Len(all_message_ids), 0)
            /\ pc' = "done"
            /\ trash' = trash
            /\ io' = [io EXCEPT !.prompts = @ + 1]
       ELSE /\ trash' = trash_entry(all_message_ids)
            /\ pc' = trash_loop_pc(all_message_ids, 0)
            /\ io' = [io EXCEPT !.prompts = @ + 1, !.trash_calls = @ + 1]
            /\ result' = result
    /\ UNCHANGED <<scan_result, min_score, execute, profiles, displayed, selection,
                   selected, all_message_ids, log_before>>
    /\ UNCHANGED <<scorer_vars, probe_vars, rank_vars, store_vars>>
    /\ UNCHANGED <<scan_vars, cache_vars, gmail_vars>>

\* gmail_client.py 140-154 and 173-177: one batchModify request for the current chunk,
\* answered with the given status.
TrashAttempt(status) ==
    /\ pc = "trash"
    /\ LET chunk == chunk_of(all_message_ids, trash.batch_num)
           handed == IF trash.attempt = 1 THEN Append(trash.submitted, chunk)
                     ELSE trash.submitted
       IN  IF status = 200
           THEN /\ acked' = Append(acked, chunk)
                /\ trash' = [trash EXCEPT
                                !.trashed = @ + Len(chunk),
                                !.batch_num = @ + 1,
                                !.attempt = 1,
                                !.status = status,
                                !.submitted = handed,
                                !.callbacks = Append(@, <<trash.batch_num + 1,
                                                          trash.total_batches>>)]
                /\ pc' = trash_loop_pc(all_message_ids, trash.batch_num + 1)
           ELSE IF is_retryable_http_error(status) /\ trash.attempt < STOP_AFTER_ATTEMPT
           THEN /\ trash' = [trash EXCEPT !.attempt = @ + 1, !.status = status,
                                          !.submitted = handed]
                /\ pc' = "trash"
                /\ acked' = acked
           ELSE /\ trash' = [trash EXCEPT !.error = status, !.status = status,
                                          !.submitted = handed]
                /\ pc' = "raised"
                /\ acked' = acked
    /\ UNCHANGED <<db, trash_log, saved>>
    /\ UNCHANGED <<scan_result, min_score, execute, profiles, displayed, selection,
                   selected, all_message_ids, answer, io, result, log_before>>
    /\ UNCHANGED <<scorer_vars, probe_vars, rank_vars>>
    /\ UNCHANGED <<scan_vars, cache_vars, gmail_vars>>

\* cleaner.py 148-157: trash_messages has returned; write the audit log and return.
Finish ==
    /\ pc = "returned"
    /\ trash_log' = save_trash_log(trash_log, ProfilesOf(scan_result, selected),
                                   all_message_ids)
    /\ io' = [io EXCEPT !.log_writes = @ + 1]
    /\ result' = Summary(Len(selected), Len(all_message_ids), trash.trashed)
    /\ pc' = "done"
    /\ UNCHANGED <<db, acked, saved>>
    /\ UNCHANGED <<scan_result, min_score, execute, profiles, displayed, selection,
                   selected, all_message_ids, answer, trash, log_before>>
    /\ UNCHANGED <<scorer_vars, probe_vars, rank_vars>>
    /\ UNCHANGED <<scan_vars, cache_vars, gmail_vars>>

NextClean ==
    \/ \E ms \in MinScoreChoices, ex \in BOOLEAN : CleanStart(ms, ex)
    \/ \E sel \in SelectionChoices : Select(sel)
    \/ \E ans \in AnswerChoices : Confirm(ans)
    \/ \E status \in WorkflowStatusChoices : TrashAttempt(status)
    \/ Finish

Spec == InitClean /\ [][NextClean]_vars

(***************************************************************************)
(* interactive_clean called by any caller.  The cache holds the older scan *)
(* and the scan of the whole pool, saved in either order; the scan result  *)
(* handed over is the one stored under "" or the one stored under          *)
(* "older_than:1y", as scan_mailbox returns them from the cache.           *)
(***************************************************************************)
InitCall ==
    /\ InitClean
    /\ \E k \in DOMAIN db.scan_metadata :
          db.scan_metadata[k].total_messages = SumCounts(PoolSenders)
    /\ trash_log = AbsentLog

NextCall ==
    \/ \E query \in {"", "older_than:1y"}, ms \in MinScoreChoices, ex \in BOOLEAN :
          CleanCall(query, ms, ex)
    \/ \E sel \in SelectionChoices : Select(sel)
    \/ \E ans \in AnswerChoices : Confirm(ans)
    \/ \E status \in WorkflowStatusChoices : TrashAttempt(status)
    \/ Finish

SpecCall == InitCall /\ [][NextCall]_vars

(***************************************************************************)
(* trash_messages on its own: any id list, from the call to its return or  *)
(* to the error it lets through.                                           *)
(***************************************************************************)
TrashLengths ==
    {0, 1, TRASH_BATCH_SIZE - 1, TRASH_BATCH_SIZE, TRASH_BATCH_SIZE + 1,
     2 * TRASH_BATCH_SIZE, 2 * TRASH_BATCH_SIZE + 1}

InitTrash ==
    /\ ScorerIdle /\ ProbeIdle /\ RankIdle /\ ScanIdle /\ CacheIdle /\ GmailIdle
    /\ db = EmptyDb /\ trash_log = AbsentLog /\ acked = <<>> /\ saved = <<>>
    /\ all_message_ids \in {[i \in 1..n |-> 60000 + i] : n \in TrashLengths}
    /\ trash = trash_entry(all_message_ids)
    /\ pc = trash_loop_pc(all_message_ids, 0)
    /\ scan_result = Nothing /\ min_score = 0 /\ execute = TRUE
    /\ profiles = <<>> /\ displayed = <<>> /\ selection = <<>> /\ selected = <<>>
    /\ answer = None
    /\ io = [prompts |-> 0, trash_calls |-> 1, log_writes |-> 0]
    /\ result = Nothing /\ log_before = AbsentLog

NextTrash == \E status \in StatusChoices : TrashAttempt(status)

SpecTrash == InitTrash /\ [][NextTrash]_vars

(***************************************************************************)
(* calculate_score and classify_sender applied to one profile.             *)
(***************************************************************************)
EmailChoices ==
    { <<"n","o","r","e","p","l","y","@","x",".","i","o">>,
      <<"N","o","R","e","p","l","y","@","x",".","i","o">>,
      <<"a","l","i","c","e","@","x",".","i","o">>,
      <<"x","i","n","f","o","@","x",".","i","o">> }

PrecedenceChoices == { <<>>, <<"b","u","l","k">>, <<"L","i","s","t">>, <<"j","u","n","k">> }

LabelChoices == { <<"INBOX">>, <<"INBOX", "CATEGORY_PROMOTIONS">> }

CountChoices == {1, HIGH_VOLUME_THRESHOLD - 1, HIGH_VOLUME_THRESHOLD, HIGH_VOLUME_THRESHOLD + 5}

MessageChoices ==
    {MessageMeta("m", "", "", "s", labels, unsub, prec, "d") :
        labels \in LabelChoices, unsub \in BOOLEAN, prec \in PrecedenceChoices}

InitScore ==
    /\ profile \in {SenderProfile(e, "", n, ms, 0, <<>>) :
                        e \in EmailChoices, n \in CountChoices,
                        ms \in SeqUpTo(MessageChoices, MaxMsgs)}
    /\ scored = FALSE
    /\ classification = None
    /\ ProbeIdle /\ RankIdle /\ StoreIdle /\ ScanIdle /\ CacheIdle /\ GmailIdle /\ CleanIdle

\* scorer.py 57-63: profile.score = calculate_score(profile)
ScoreStep ==
    /\ ~scored
    /\ profile' = [profile EXCEPT !.score = calculate_score(profile)]
    /\ scored' = TRUE
    /\ UNCHANGED <<classification, probe_vars, rank_vars, store_vars, clean_vars>>
    /\ UNCHANGED <<scan_vars, cache_vars, gmail_vars>>

\* display.py 57: classification = classify_sender(profile.score)
ClassifyStep ==
    /\ scored
    /\ classification = None
    /\ classification' = classify_sender(profile.score)
    /\ UNCHANGED <<profile, scored, probe_vars, rank_vars, store_vars, clean_vars>>
    /\ UNCHANGED <<scan_vars, cache_vars, gmail_vars>>

NextScore == ScoreStep \/ ClassifyStep

SpecScore == InitScore /\ [][NextScore]_vars

(***************************************************************************)
(* classify_sender applied to any score, also outside [0, 1].              *)
(***************************************************************************)
ScoreProbes == (0 - 5)..(SCORE_CAP + 5)

InitProbe ==
    /\ probe_score \in ScoreProbes
    /\ probe_class = None
    /\ ScorerIdle /\ RankIdle /\ StoreIdle /\ ScanIdle /\ CacheIdle /\ GmailIdle /\ CleanIdle

Classify ==
    /\ probe_class = None
    /\ probe_class' = classify_sender(probe_score)
    /\ UNCHANGED <<probe_score, scorer_vars, rank_vars, store_vars, clean_vars>>
    /\ UNCHANGED <<scan_vars, cache_vars, gmail_vars>>

NextProbe == Classify

SpecClassify == InitProbe /\ [][NextProbe]_vars

(***************************************************************************)
(* The ranking applied to any sender mapping.                              *)
(***************************************************************************)
RankEmails == <<"a@x.io", "b@x.io", "c@x.io", "d@x.io", "e@x.io">>

RankScores == {25, SCORE_UNCERTAIN, SCORE_LIKELY_NEWSLETTER, SCORE_NEWSLETTER}

RankCounts == {1, 12}

RankMinScores == {-10, 0, SCORE_LIKELY_NEWSLETTER}

RankInputs ==
    UNION { { [i \in 1..n |-> SenderProfile(RankEmails[i], "", f[i][2], <<>>, f[i][1], <<>>)] :
                f \in [1..n -> RankScores \X RankCounts] } : n \in 0..MaxRankSenders }

InitRank ==
    /\ rank_senders \in RankInputs
    /\ rank_min_score \in RankMinScores
    /\ rank_pc = "input"
    /\ ranked_clean = <<>> /\ ranked_display = <<>> /\ ranked_export = <<>>
    /\ reranked = <<>>
    /\ ScorerIdle /\ ProbeIdle /\ StoreIdle /\ ScanIdle /\ CacheIdle /\ GmailIdle /\ CleanIdle

\* cleaner.py 69-73
RankClean ==
    /\ rank_pc = "input"
    /\ ranked_clean' = clean_profiles(rank_senders, rank_min_score)
    /\ rank_pc' = "clean"
    /\ UNCHANGED <<rank_senders, rank_min_score, ranked_display, ranked_export, reranked>>
    /\ UNCHANGED <<scorer_vars, probe_vars, store_vars, clean_vars>>
    /\ UNCHANGED <<scan_vars, cache_vars, gmail_vars>>

\* cleaner.py 80 and display.py 33-44
RankDisplay ==
    /\ rank_pc = "clean"
    /\ ranked_display' = display_profiles(rank_senders, rank_min_score)
    /\ rank_pc' = "display"
    /\ UNCHANGED <<rank_senders, rank_min_score, ranked_clean, ranked_export, reranked>>
    /\ UNCHANGED <<scorer_vars, probe_vars, store_vars, clean_vars>>
    /\ UNCHANGED <<scan_vars, cache_vars, gmail_vars>>

\* cli.py 91-99 and export.py 18-24: export of the same scan result
RankExport ==
    /\ rank_pc = "display"
    /\ ranked_export' = export_profiles(rank_senders)
    /\ rank_pc' = "export"
    /\ UNCHANGED <<rank_senders, rank_min_score, ranked_clean, ranked_display, reranked>>
    /\ UNCHANGED <<scorer_vars, probe_vars, store_vars, clean_vars>>
    /\ UNCHANGED <<scan_vars, cache_vars, gmail_vars>>

\* The ranking applied to the list it produced.
RankAgain ==
    /\ rank_pc = "export"
    /\ reranked' = clean_profiles(ranked_clean, rank_min_score)
    /\ rank_pc' = "again"
    /\ UNCHANGED <<rank_senders, rank_min_score, ranked_clean, ranked_display,
                   ranked_export>>
    /\ UNCHANGED <<scorer_vars, probe_vars, store_vars, clean_vars>>
    /\ UNCHANGED <<scan_vars, cache_vars, gmail_vars>>

NextRank == RankClean \/ RankDisplay \/ RankExport \/ RankAgain

SpecRank == InitRank /\ [][NextRank]_vars

(***************************************************************************)
(* A scan that goes to the provider (scanner.py 53-97): the messages are   *)
(* fetched, grouped and scored, the result is saved, and the next command  *)
(* loads it (cli.py 52).  The listed ids are 1..Len(responses).            *)
(***************************************************************************)
Response(ok, From, Subject, ListUnsubscribe, Precedence, labelIds) ==
    [ok |-> ok, From |-> From, Subject |-> Subject, ListUnsubscribe |-> ListUnsubscribe,
     Precedence |-> Precedence, labelIds |-> labelIds, Date |-> "d"]

FromAl == <<"A","l"," ","<","a","@","x",">">>
FromAlB == <<"\"","A","l"," ","B","\""," ","<","A","@","X",">">>
FromBare == <<"a","@","x">>
FromBo == <<" ","'","B","o","'"," "," ","<","b","@","x",">"," ">>
FromAngle == <<"<","B","@","x",">">>

ResponseChoices ==
    { Response(TRUE, FromAl, "hi", TRUE, <<>>, <<"INBOX">>),
      Response(TRUE, FromAlB, "yo", FALSE, <<"B","u","l","k">>, <<"INBOX">>),
      Response(TRUE, FromBare, "", FALSE, <<>>, <<"CATEGORY_PROMOTIONS">>),
      Response(TRUE, FromBo, "hi", FALSE, <<>>, <<"INBOX">>),
      Response(TRUE, FromAngle, "", FALSE, <<>>, <<"INBOX">>),
      Response(FALSE, <<>>, "", FALSE, <<>>, <<>>) }

\* Five messages of one sender, four of them with a subject.
Burst ==
    << Response(TRUE, FromAl, "b1", FALSE, <<>>, <<"INBOX">>),
       Response(TRUE, FromAl, "b2", FALSE, <<>>, <<"INBOX">>),
       Response(TRUE, FromAl, "", FALSE, <<>>, <<"INBOX">>),
       Response(TRUE, FromAl, "b3", FALSE, <<>>, <<"INBOX">>),
       Response(TRUE, FromAl, "b4", FALSE, <<>>, <<"INBOX">>) >>

ScanInputs ==
    SeqUpTo(ResponseChoices, MaxFetched)
    \cup {t \o Burst : t \in SeqUpTo(ResponseChoices, MaxFetched)}

\* A variant that hands the query on as it was given.
QueryAsGiven(query) == query

\* query or ""
QueryOrEmpty(query) == IF query = None THEN "" ELSE query

\* The calls: the snapshots the cache holds, the query and use_cache.  The cache is
\* empty, or holds a scan under "older_than:1y", or that scan and a later one under "".
ScanSetups ==
    LET later == ScanOfPool({3})
    IN  { <<<<>>, "", TRUE>>,
          <<<<>>, "older_than:1y", FALSE>>,
          <<<<OlderScan>>, "", TRUE>>,
          <<<<OlderScan>>, None, TRUE>>,
          <<<<OlderScan>>, "older_than:1y", FALSE>>,
          <<<<OlderScan>>, "older_than:1y", TRUE>>,
          <<<<OlderScan, later>>, "older_than:1y", TRUE>>,
          <<<<OlderScan, later>>, None, TRUE>> }

InitScan ==
    /\ responses \in ScanInputs
    /\ \E setup \in ScanSetups :
          /\ saved = DatesOf(setup[1])
          /\ db = db_after(setup[1])
          /\ scan_query = setup[2]
          /\ scan_call = [use_cache |-> setup[3], lists |-> 0, fetches |-> 0,
                          saves |-> 0, returned |-> Nothing]
    /\ trash_log = AbsentLog /\ acked = <<>>
    /\ scan_pc = "start" /\ scan_messages = <<>> /\ scan_i = 0 /\ scan_senders = <<>>
    /\ score_passes = 0 /\ scan_saved = Nothing /\ scan_loaded = Nothing
    /\ ScorerIdle /\ ProbeIdle /\ RankIdle /\ CacheIdle /\ GmailIdle /\ CleanIdle

\* scanner.py 41-60: the cache is asked first when use_cache is set; a snapshot found
\* is returned, otherwise the ids are listed.
ScanStart ==
    /\ scan_pc = "start"
    /\ LET cached == IF scan_call.use_cache
                     THEN load_latest_scan(db, QueryOrEmpty(scan_query))
                     ELSE Nothing
       IN  IF cached # Nothing
           THEN /\ scan_call' = [scan_call EXCEPT !.returned = cached]
                /\ scan_pc' = "cached"
           ELSE /\ scan_call' = [scan_call EXCEPT !.lists = @ + 1]
                /\ scan_pc' = "fetch"
    /\ UNCHANGED <<responses, scan_query, scan_messages, scan_i, scan_senders,
                   score_passes, scan_saved, scan_loaded>>
    /\ UNCHANGED <<scorer_vars, probe_vars, rank_vars, store_vars, cache_vars, clean_vars,
                   gmail_vars>>

\* scanner.py 62-65: no id was listed; an empty result is saved
ScanNothing ==
    /\ scan_pc = "fetch"
    /\ responses = <<>>
    /\ scan_saved' = ScanResult(0, <<>>, "t3", QueryOrEmpty(scan_query))
    /\ db' = save_scan(db, scan_saved')
    /\ saved' = Append(saved, scan_saved'.scan_date)
    /\ scan_call' = [scan_call EXCEPT !.saves = @ + 1, !.returned = scan_saved']
    /\ scan_pc' = "load"
    /\ UNCHANGED <<responses, scan_query, scan_messages, scan_i, scan_senders,
                   score_passes, scan_loaded>>
    /\ UNCHANGED <<trash_log, acked>>
    /\ UNCHANGED <<scorer_vars, probe_vars, rank_vars, cache_vars, clean_vars,
                   gmail_vars>>

\* scanner.py 76 and gmail_client.py 80-137: the batch request is executed, or
\* _execute_batch lets its error through and the scan ends with it.
Fetch(executed) ==
    /\ scan_pc = "fetch"
    /\ responses # <<>>
    /\ IF executed
       THEN /\ scan_messages' = fetch_message_metadata(responses)
            /\ scan_pc' = IF scan_messages' = <<>> THEN "score" ELSE "group"
       ELSE /\ scan_messages' = scan_messages
            /\ scan_pc' = "raised"
    /\ scan_call' = [scan_call EXCEPT !.fetches = @ + 1]
    /\ UNCHANGED <<responses, scan_query, scan_i, scan_senders, score_passes, scan_saved,
                   scan_loaded>>
    /\ UNCHANGED <<scorer_vars, probe_vars, rank_vars, store_vars, cache_vars, clean_vars,
                   gmail_vars>>

\* scanner.py 17-29: one iteration of the loop of group_by_sender
GroupStep ==
    /\ scan_pc = "group"
    /\ scan_i < Len(scan_messages)
    /\ scan_senders' = group_step(scan_senders, scan_messages[scan_i + 1])
    /\ scan_i' = scan_i + 1
    /\ scan_pc' = IF scan_i' = Len(scan_messages) THEN "score" ELSE "group"
    /\ UNCHANGED <<responses, scan_query, scan_messages, score_passes, scan_saved,
                   scan_loaded, scan_call>>
    /\ UNCHANGED <<scorer_vars, probe_vars, rank_vars, store_vars, cache_vars, clean_vars,
                   gmail_vars>>

\* scanner.py 83: score_all_senders, applied once by the scan and again by any caller
\* holding the mapping
ScoreAll ==
    /\ scan_pc = "score"
    /\ score_passes < MaxScorePasses
    /\ scan_senders' = score_all_senders(scan_senders)
    /\ score_passes' = score_passes + 1
    /\ UNCHANGED <<responses, scan_query, scan_pc, scan_messages, scan_i, scan_saved,
                   scan_loaded, scan_call>>
    /\ UNCHANGED <<scorer_vars, probe_vars, rank_vars, store_vars, cache_vars, clean_vars,
                   gmail_vars>>

\* scanner.py 85-92: the result is built and saved
ScanSave ==
    /\ scan_pc = "score"
    /\ score_passes >= 1
    /\ scan_saved' = ScanResult(Len(scan_messages), scan_senders, "t3",
                                QueryOrEmpty(scan_query))
    /\ db' = save_scan(db, scan_saved')
    /\ saved' = Append(saved, scan_saved'.scan_date)
    /\ scan_call' = [scan_call EXCEPT !.saves = @ + 1, !.returned = scan_saved']
    /\ scan_pc' = "load"
    /\ UNCHANGED <<responses, scan_query, scan_messages, scan_i, scan_senders,
                   score_passes, scan_loaded>>
    /\ UNCHANGED <<trash_log, acked>>
    /\ UNCHANGED <<scorer_vars, probe_vars, rank_vars, cache_vars, clean_vars,
                   gmail_vars>>

\* cli.py 52: cache.load_latest_scan()
ScanLoad ==
    /\ scan_pc = "load"
    /\ scan_loaded' = load_latest_scan(db, None)
    /\ scan_pc' = "end"
    /\ UNCHANGED <<responses, scan_query, scan_messages, scan_i, scan_senders,
                   score_passes, scan_saved, scan_call>>
    /\ UNCHANGED <<scorer_vars, probe_vars, rank_vars, store_vars, cache_vars, clean_vars,
                   gmail_vars>>

NextScan ==
    \/ ScanStart
    \/ ScanNothing
    \/ \E executed \in BOOLEAN : Fetch(executed)
    \/ GroupStep
    \/ ScoreAll
    \/ ScanSave
    \/ ScanLoad

SpecScan == InitScan /\ [][NextScan]_vars

(***************************************************************************)
(* fetch_message_metadata on its own (gmail_client.py 80-137): the ids     *)
(* 1..n are requested in batches.  BatchHttpRequest.execute raises the     *)
(* error of the batch request before any callback runs; when the batch     *)
(* request is answered it calls every callback once, in request order,     *)
(* with the response of its message or with its exception.                 *)
(***************************************************************************)
\* The responses to n requested ids, n around one and two batches; the ids whose
\* individual response fails are none, all, every third, the first of each batch, or
\* the last of each batch.
FetchInputs ==
    LET lengths == {0, 1, BATCH_SIZE - 1, BATCH_SIZE, BATCH_SIZE + 1, 2 * BATCH_SIZE,
                    2 * BATCH_SIZE + 1}
        failures == { {}, 1..(2 * BATCH_SIZE + 1),
                      {i \in 1..(2 * BATCH_SIZE + 1) : i % 3 = 0},
                      {1, BATCH_SIZE + 1, 2 * BATCH_SIZE + 1},
                      {BATCH_SIZE, 2 * BATCH_SIZE} }
    IN  { [i \in 1..n |->
              IF i \in failing THEN Response(FALSE, <<>>, "", FALSE, <<>>, <<>>)
              ELSE IF i % 2 = 1
                   THEN Response(TRUE, FromAl, "hi", TRUE, <<>>, <<"INBOX">>)
                   ELSE Response(TRUE, FromAngle, "", FALSE, <<>>, <<"INBOX">>)]
          : n \in lengths, failing \in failures }

InitFetch ==
    /\ ScorerIdle /\ ProbeIdle /\ RankIdle /\ StoreIdle /\ ScanIdle /\ CacheIdle
    /\ CleanIdle /\ ListIdle
    /\ fetch_responses \in FetchInputs
    /\ fetch = fetch_entry(Len(fetch_responses))
    /\ fetch_pc = fetch_loop_pc(Len(fetch_responses), 0)

\* gmail_client.py 70-77 and 89-135: one execution of the current batch, answered with
\* the given status.
FetchAttempt(status) ==
    /\ fetch_pc = "batch"
    /\ LET n == Len(fetch_responses)
           chunk == fetch_chunk(n, fetch.batch_num)
           handed == IF fetch.attempt = 1 THEN Append(fetch.submitted, chunk)
                     ELSE fetch.submitted
       IN  IF status = 200
           THEN /\ fetch' = [fetch EXCEPT
                                !.results = @ \o batch_results(fetch_responses, chunk),
                                !.batch_num = @ + 1,
                                !.attempt = 1,
                                !.status = status,
                                !.submitted = handed,
                                !.callbacks = Append(@, <<fetch.batch_num + 1,
                                                          fetch.total_batches>>)]
                /\ fetch_pc' = fetch_loop_pc(n, fetch.batch_num + 1)
           ELSE IF is_retryable_http_error(status) /\ fetch.attempt < STOP_AFTER_ATTEMPT
           THEN /\ fetch' = [fetch EXCEPT !.attempt = @ + 1, !.status = status,
                                          !.submitted = handed]
                /\ fetch_pc' = "batch"
           ELSE /\ fetch' = [fetch EXCEPT !.error = status, !.status = status,
                                          !.submitted = handed]
                /\ fetch_pc' = "raised"
    /\ UNCHANGED <<fetch_responses, list_vars>>
    /\ UNCHANGED <<scorer_vars, probe_vars, rank_vars, store_vars, scan_vars, cache_vars,
                   clean_vars>>

NextFetch == \E status \in StatusChoices : FetchAttempt(status)

SpecFetch == InitFetch /\ [][NextFetch]_vars

(***************************************************************************)
(* list_message_ids on its own (gmail_client.py 40-67).  The provider      *)
(* holds the listing as pages; every page but the last carries a           *)
(* nextPageToken.  max_results is <<>> for None and <<L>> for the int L.   *)
(***************************************************************************)
\* The listings: up to MaxPages pages of up to MaxPageSize ids each, the ids numbered
\* in provider order.
ListInputs ==
    LET sizes == SeqUpTo(0..MaxPageSize, MaxPages) \ {<<>>}
        Before(sz, k) == SumSeq(SubSeq(sz, 1, k - 1))
    IN  { [k \in DOMAIN sz |->
              [messages |-> [j \in 1..sz[k] |-> Before(sz, k) + j],
               nextPageToken |-> IF k < Len(sz) THEN "token" ELSE None]]
          : sz \in sizes }

LimitChoices == {<<>>} \cup {<<L>> : L \in 0..MaxLimit}

InitList ==
    /\ ScorerIdle /\ ProbeIdle /\ RankIdle /\ StoreIdle /\ ScanIdle /\ CacheIdle
    /\ CleanIdle /\ FetchIdle
    /\ pages \in ListInputs
    /\ max_results \in LimitChoices
    /\ listing = [ids |-> <<>>, page |-> 0, out |-> <<>>]
    /\ list_pc = "page"

\* gmail_client.py 49-67: one iteration of the while loop: the next page is requested
\* and its ids are appended one by one, the call returning from inside the for loop
\* when max_results is truthy and reached.
ListPage ==
    /\ list_pc = "page"
    /\ LET resp == pages[listing.page + 1]
           limited == max_results # <<>> /\ max_results[1] # 0
           reached == {j \in DOMAIN resp.messages :
                          Len(listing.ids) + j >= max_results[1]}
       IN  IF limited /\ reached # {}
           THEN LET j == CHOOSE i \in reached : \A h \in reached : i <= h
                    ids == listing.ids \o SubSeq(resp.messages, 1, j)
                IN  /\ listing' = [ids |-> ids, page |-> listing.page + 1,
                                   out |-> SubSeq(ids, 1, max_results[1])]
                    /\ list_pc' = "returned"
           ELSE LET ids == listing.ids \o resp.messages
                IN  IF resp.nextPageToken = None
                    THEN /\ listing' = [ids |-> ids, page |-> listing.page + 1,
                                        out |-> ids]
                         /\ list_pc' = "returned"
                    ELSE /\ listing' = [ids |-> ids, page |-> listing.page + 1,
                                        out |-> <<>>]
                         /\ list_pc' = "page"
    /\ UNCHANGED <<pages, max_results, fetch_vars>>
    /\ UNCHANGED <<scorer_vars, probe_vars, rank_vars, store_vars, scan_vars, cache_vars,
                   clean_vars>>

SpecList == InitList /\ [][ListPage]_vars

(***************************************************************************)
(* The two batched operations side by side: a call of trash_messages or a  *)
(* call of fetch_message_metadata.                                         *)
(***************************************************************************)
SpecRetry == (InitTrash \/ InitFetch) /\ [][NextTrash \/ NextFetch]_vars

(***************************************************************************)
(* The cache under any sequence of calls.                                  *)
(***************************************************************************)
CacheScans ==
    { ScanResult(3, << SenderProfile("a@x.io", "A", 2, MessagesFrom("a@x.io", 100, 2),
                                     40, <<"s">>),
                       SenderProfile("b@x.io", "", 1, MessagesFrom("b@x.io", 102, 1),
                                     0, <<>>) >>, "c1", ""),
      ScanResult(1, << SenderProfile("a@x.io", "A2", 1, MessagesFrom("a@x.io", 200, 1),
                                     55, <<"s">>) >>, "c2", "older_than:1y"),
      ScanResult(0, <<>>, "c3", ""),
      ScanResult(2, << SenderProfile("b@x.io", "B", 2, MessagesFrom("b@x.io", 400, 2),
                                     70, <<"s", "s">>) >>, "c4", "Older_Than:1y") }

LoadQueryChoices == {None, "", "older_than:1y", "Older_Than:1y", "in:spam"}

AddressChoices == {"a@x.io", "b@x.io", "A@x.io", "c@x.io"}

InitCache ==
    /\ db = EmptyDb /\ saved = <<>> /\ trash_log = AbsentLog /\ acked = <<>>
    /\ cache_call = NoCall /\ dropped = 0
    /\ ScorerIdle /\ ProbeIdle /\ RankIdle /\ ScanIdle /\ CleanIdle /\ GmailIdle

CacheSave(sr) ==
    /\ Len(saved) < MaxSaves
    /\ db' = save_scan(db, sr)
    /\ saved' = Append(saved, sr.scan_date)
    /\ cache_call' = [op |-> "save", arg |-> sr.query, out |-> <<>>]
    /\ UNCHANGED <<dropped, trash_log, acked>>
    /\ UNCHANGED <<scorer_vars, probe_vars, rank_vars, scan_vars, clean_vars,
                   gmail_vars>>

CacheClear ==
    /\ db' = clear(db)
    /\ saved' = <<>>
    /\ cache_call' = [op |-> "clear", arg |-> None, out |-> <<>>]
    /\ dropped' = Len(saved)
    /\ UNCHANGED <<trash_log, acked>>
    /\ UNCHANGED <<scorer_vars, probe_vars, rank_vars, scan_vars, clean_vars,
                   gmail_vars>>

CacheLoad(query) ==
    /\ cache_call' = [op |-> "load", arg |-> query, out |-> load_latest_scan(db, query)]
    /\ UNCHANGED <<dropped, store_vars>>
    /\ UNCHANGED <<scorer_vars, probe_vars, rank_vars, scan_vars, clean_vars,
                   gmail_vars>>

CacheGetIds(email) ==
    /\ cache_call' = [op |-> "ids", arg |-> email,
                      out |-> get_message_ids_for_sender(db, email)]
    /\ UNCHANGED <<dropped, store_vars>>
    /\ UNCHANGED <<scorer_vars, probe_vars, rank_vars, scan_vars, clean_vars,
                   gmail_vars>>

NextCache ==
    \/ \E sr \in CacheScans : CacheSave(sr)
    \/ CacheClear
    \/ \E query \in LoadQueryChoices : CacheLoad(query)
    \/ \E email \in AddressChoices : CacheGetIds(email)

SpecCache == InitCache /\ [][NextCache]_vars

(***************************************************************************)
(* Properties.                                                             *)
(***************************************************************************)
RECURSIVE Flatten(_)
Flatten(chunks) == IF chunks = <<>> THEN <<>> ELSE chunks[1] \o Flatten(Tail(chunks))

IsPrefix(a, b) == Len(a) <= Len(b) /\ SubSeq(b, 1, Len(a)) = a

\* The typed line is a list of index tokens (neither "q" nor "all") of which at least
\* one is non-numeric or outside 1..N, N the number of ranked candidates.
HasInvalidToken ==
    /\ ~SelectionIs(selection, <<"q">>)
    /\ ~SelectionIs(selection, <<"a","l","l">>)
    /\ \E k \in DOMAIN selection :
          \/ ~ParseInt(selection[k]).ok
          \/ ParseInt(selection[k]).value \notin 1..Len(profiles)

NothingDone ==
    /\ selected = <<>> /\ all_message_ids = <<>> /\ acked = <<>>
    /\ io.trash_calls = 0 /\ trash_log = log_before

\* C1: a selection with a non-numeric or out-of-range token is invalid as a whole: the
\* run ends with selected_senders = 0, total_messages = 0, trashed = 0 and no sender is
\* selected, resolved, discarded or logged.
C1_InvalidTokenInvalidatesSelection ==
    (pc \notin {"start", "select"} /\ HasInvalidToken)
        => (pc = "done" /\ result = Summary(0, 0, 0) /\ NothingDone)

\* C2: trash_messages is invoked only in execute mode and after the answer "TRASH"; any
\* other answer ends the run with trashed = 0, no discard call and no audit-log write.
C2_DiscardOnlyAfterExactConfirmation ==
    /\ (io.trash_calls > 0 \/ acked # <<>> \/ pc \in {"trash", "returned", "raised"})
          => (execute /\ answer = "TRASH")
    /\ (pc \notin {"start", "select", "confirm"} /\ answer # None /\ answer # "TRASH")
          => /\ pc = "done"
             /\ result.trashed = 0
             /\ io.trash_calls = 0 /\ acked = <<>>
             /\ io.log_writes = 0 /\ trash_log = log_before

C2_Witness ==
    pc = "done" /\ execute /\ answer = "trash" /\ Len(all_message_ids) > 0

\* C3: a dry run returns total_messages = number of resolved ids and trashed = 0, never
\* calls the discard, never prompts for confirmation, and leaves the audit log unchanged.
C3_DryRunHasNoEffect ==
    (pc # "start" /\ ~execute)
        => /\ pc \in {"select", "done"}
           /\ io.prompts = 0 /\ answer = None
           /\ io.trash_calls = 0 /\ acked = <<>>
           /\ io.log_writes = 0 /\ trash_log = log_before
           /\ pc = "done" => /\ result.total_messages = Len(all_message_ids)
                             /\ result.trashed = 0

C3_Witness ==
    pc = "done" /\ ~execute /\ Len(all_message_ids) > TRASH_BATCH_SIZE
        /\ result.total_messages > TRASH_BATCH_SIZE

\* C4: when a batch fails fatally after earlier batches were acknowledged, the count of
\* the acknowledged messages is still reported to the caller of the workflow.
C4_AcknowledgedCountReportedOnFatalFailure ==
    (pc = "raised" /\ acked # <<>>)
        => (result # Nothing /\ result.trashed = Len(Flatten(acked)))

\* C5: trash_messages hands over consecutive non-empty batches of at most 1000 ids in
\* list order; on return their concatenation is the input list and the returned count
\* is its length (0, with no batch, for the empty list).
C5_BatchesPartitionTheIdList ==
    /\ \A i \in DOMAIN trash.submitted :
          /\ trash.submitted[i] # <<>>
          /\ Len(trash.submitted[i]) <= TRASH_BATCH_SIZE
    /\ IsPrefix(Flatten(trash.submitted), all_message_ids)
    /\ IsPrefix(acked, trash.submitted)
    /\ pc = "returned" =>
          /\ Flatten(trash.submitted) = all_message_ids
          /\ acked = trash.submitted
          /\ trash.trashed = Len(all_message_ids)
    /\ all_message_ids = <<>> =>
          /\ pc = "returned" /\ trash.submitted = <<>> /\ trash.trashed = 0

C5_Witness ==
    /\ pc = "returned"
    /\ Len(trash.submitted) = 3
    /\ Len(all_message_ids) = 2 * TRASH_BATCH_SIZE + 1

Weight(triggered, w) == IF triggered THEN w ELSE 0

\* C7: the score is min(1.0, sum of the weights of the triggered signals), with weights
\* 0.40, 0.20, 0.15, 0.15, 0.10; so it is in [0, 1], does not decrease when a further
\* signal is triggered, is 1.0 with all five and 0.40 with list-unsubscribe alone.
C7_ScoreIsCappedWeightedSum ==
    scored =>
      LET unsub == \E k \in DOMAIN profile.messages : profile.messages[k].has_list_unsubscribe
          auto == \E i \in DOMAIN AUTOMATED_SENDER_PATTERNS :
                      StartsWith(Lower(profile.email), AUTOMATED_SENDER_PATTERNS[i])
          bulk == \E k \in DOMAIN profile.messages :
                      Lower(profile.messages[k].precedence)
                          \in {<<"b","u","l","k">>, <<"l","i","s","t">>}
          volume == profile.message_count >= 10
          promo == \E k \in DOMAIN profile.messages :
                      "CATEGORY_PROMOTIONS" \in Range(profile.messages[k].labels)
          sum == Weight(unsub, 40) + Weight(auto, 20) + Weight(bulk, 15)
                     + Weight(volume, 15) + Weight(promo, 10)
      IN  /\ profile.score = Min(100, sum)
          /\ 0 <= profile.score /\ profile.score <= 100
          /\ (unsub /\ auto /\ bulk /\ volume /\ promo) => profile.score = 100
          /\ (unsub /\ ~auto /\ ~bulk /\ ~volume /\ ~promo) => profile.score = 40
          /\ \A m \in MessageChoices :
                calculate_score([profile EXCEPT !.messages = Append(@, m)]) >= profile.score
          /\ calculate_score([profile EXCEPT !.message_count = @ + 10]) >= profile.score
          /\ \A e \in EmailChoices :
                (\E i \in DOMAIN AUTOMATED_SENDER_PATTERNS :
                      StartsWith(Lower(e), AUTOMATED_SENDER_PATTERNS[i]))
                    => calculate_score([profile EXCEPT !.email = e]) >= profile.score

C7_Witness ==
    /\ scored /\ profile.score = 100
    /\ profile.email[1] = "N"
    /\ profile.message_count = 10
    /\ Len(profile.messages) = 2
    /\ ~profile.messages[1].has_list_unsubscribe

ClassRank(c) ==
    CASE c = "newsletter" -> 0
      [] c = "likely_newsletter" -> 1
      [] c = "uncertain" -> 2
      [] c = "personal" -> 3

\* C8: classify_sender is total with inclusive lower boundaries (>= 0.7 newsletter,
\* >= 0.5 likely_newsletter, >= 0.3 uncertain, else personal), and a higher score never
\* gets a less newsletter-like class.
C8_ClassifyBandsInclusive ==
    probe_class # None =>
      /\ probe_class \in {"newsletter", "likely_newsletter", "uncertain", "personal"}
      /\ probe_score >= 70 => probe_class = "newsletter"
      /\ (50 <= probe_score /\ probe_score < 70) => probe_class = "likely_newsletter"
      /\ (30 <= probe_score /\ probe_score < 50) => probe_class = "uncertain"
      /\ probe_score < 30 => probe_class = "personal"
      /\ \A t \in ScoreProbes :
            t >= probe_score => ClassRank(classify_sender(t)) <= ClassRank(probe_class)

C8_Witness == probe_score = 50 /\ probe_class = "likely_newsletter"

\* C9: for every scan result and min_score, also 0 or negative, the ranked candidates
\* of the display and of the workflow are exactly the senders with
\* score >= max(min_score, 0.3); no personal sender is displayed, selectable or
\* discarded.
C9_CandidatesRespectUncertainFloor ==
    pc # "start" =>
      LET floor == IF min_score > 30 THEN min_score ELSE 30
          all == scan_result.senders
          want == {all[i].email : i \in {j \in DOMAIN all : all[j].score >= floor}}
          personal == {i \in DOMAIN all : all[i].score < 30}
      IN  /\ Range(profiles) = want /\ Len(profiles) = Cardinality(want)
          /\ profiles # <<>> =>
                (Range(displayed) = want /\ Len(displayed) = Cardinality(want))
          /\ Range(selected) \subseteq want
          /\ \A i \in personal :
                /\ all[i].email \notin Range(profiles) \cup Range(displayed) \cup Range(selected)
                /\ \A k \in DOMAIN all[i].messages :
                      /\ \A n \in DOMAIN all_message_ids :
                            all_message_ids[n] # all[i].messages[k].message_id
                      /\ \A c \in DOMAIN acked : \A n \in DOMAIN acked[c] :
                            acked[c][n] # all[i].messages[k].message_id

C9_Witness ==
    /\ pc = "done" /\ min_score < 0 /\ SelectionIs(selection, <<"a","l","l">>)
    /\ Len(scan_result.senders) = 3 /\ Len(profiles) = 2
    /\ acked # <<>>

C11_DisplayCleanExportSameOrder ==
    rank_pc \in {"export", "again"} =>
      LET Shown(p) == p.score >= rank_min_score
      IN  /\ ranked_display = ranked_clean
          /\ \A i \in DOMAIN ranked_display :
                parse_selection(<< <<Digits[i + 1]>> >>, ranked_clean).selected
                    = <<ranked_display[i]>>
          /\ ranked_display = SelectSeq(ranked_export, Shown)
          /\ rank_min_score <= 30 => ranked_export = ranked_display

C11_Witness ==
    /\ rank_pc = "export" /\ rank_min_score = 50
    /\ Len(ranked_export) = 3 /\ Len(ranked_display) = 2
    /\ ranked_display[1].email = rank_senders[3].email
    /\ ranked_export[3].email = rank_senders[1].email

\* The messages of the fetched list that the grouping loop has processed so far.
Processed == SubSeq(scan_messages, 1, scan_i)

Grouping == scan_pc \in {"group", "score", "load", "end"}

RECURSIVE SumOfCounts(_)
SumOfCounts(ps) == IF ps = <<>> THEN 0 ELSE ps[1].message_count + SumOfCounts(Tail(ps))

\* C12: the profiles of group_by_sender have message_count = len(messages), every
\* input message is in exactly one profile, once, the one keyed by its sender_email,
\* the counts add up to the input length, and the empty input gives the empty mapping.
C12_GroupingPartitionsTheMessages ==
    Grouping =>
      /\ \A i, j \in DOMAIN scan_senders :
            scan_senders[i].email = scan_senders[j].email => i = j
      /\ \A i \in DOMAIN scan_senders :
            /\ scan_senders[i].message_count = Len(scan_senders[i].messages)
            /\ scan_senders[i].message_count >= 1
      /\ \A k \in DOMAIN Processed :
            LET holds == {<<i, j>> \in (DOMAIN scan_senders) \X (1..Len(Processed)) :
                              /\ j \in DOMAIN scan_senders[i].messages
                              /\ scan_senders[i].messages[j] = Processed[k]}
            IN  /\ Cardinality(holds) = 1
                /\ \A h \in holds : scan_senders[h[1]].email = Processed[k].sender_email
      /\ SumOfCounts(scan_senders) = Len(Processed)
      /\ Processed = <<>> => scan_senders = <<>>

C12_Witness ==
    /\ scan_pc = "score" /\ scan_i = 3 /\ Len(scan_senders) = 2
    /\ scan_senders[1].message_count = 1 /\ scan_senders[2].message_count = 2
    /\ Len(responses) = 3

\* The address a From header carries, as written in the header.
AddressOf(from_value) ==
    CASE from_value = FromAl -> <<"a","@","x">>
      [] from_value = FromAlB -> <<"A","@","X">>
      [] from_value = FromBare -> <<"a","@","x">>
      [] from_value = FromBo -> <<"b","@","x">>
      [] from_value = FromAngle -> <<"B","@","x">>

\* The profile that holds the message with the given id, 0 if there is none.
HolderOf(id) ==
    IF \E i \in DOMAIN scan_senders :
          \E j \in DOMAIN scan_senders[i].messages : scan_senders[i].messages[j].message_id = id
    THEN CHOOSE i \in DOMAIN scan_senders :
          \E j \in DOMAIN scan_senders[i].messages : scan_senders[i].messages[j].message_id = id
    ELSE 0

\* C13: two fetched messages whose sender addresses differ only in letter case are in
\* the same profile, and every key of the mapping is a lowercase address.
C13_GroupingIgnoresLetterCase ==
    (Grouping /\ scan_i = Len(scan_messages)) =>
      /\ \A a, b \in DOMAIN responses :
            (responses[a].ok /\ responses[b].ok
                /\ Lower(AddressOf(responses[a].From)) = Lower(AddressOf(responses[b].From)))
              => (HolderOf(a) # 0 /\ HolderOf(a) = HolderOf(b))
      /\ \A i \in DOMAIN scan_senders :
            \A c \in DOMAIN scan_senders[i].email :
                scan_senders[i].email[c] \notin DOMAIN UpperToLower

C13_Witness ==
    /\ scan_pc = "score" /\ Len(scan_senders) = 1 /\ Len(responses) = 2
    /\ responses[1].From = FromAl /\ responses[2].From = FromAlB
    /\ scan_senders[1].message_count = 2

\* The display name a From header carries: the text before "<", trimmed and unquoted.
DisplayNameOf(from_value) ==
    CASE from_value = FromAl -> <<"A","l">>
      [] from_value = FromAlB -> <<"A","l"," ","B">>
      [] from_value = FromBare -> <<>>
      [] from_value = FromBo -> <<"B","o">>
      [] from_value = FromAngle -> <<>>

\* C14: at every point of the aggregation a profile's name is the display name of the
\* first message processed for its email (empty if that message's raw sender has no
\* "<"), whatever names later messages of the same email carry.
C14_NameFixedByFirstMessage ==
    Grouping =>
      \A i \in DOMAIN scan_senders :
         LET mine == {k \in DOMAIN Processed :
                          Processed[k].sender_email = scan_senders[i].email}
             first == CHOOSE k \in mine : \A o \in mine : k <= o
         IN  /\ mine # {}
             /\ scan_senders[i].name = DisplayNameOf(Processed[first].sender)

C14_Witness ==
    /\ scan_pc = "score" /\ Len(scan_senders) = 1 /\ Len(responses) = 3
    /\ responses[1].From = FromBare /\ responses[2].From = FromAlB
    /\ responses[3].From = FromAl
    /\ scan_senders[1].name = <<>>

\* C15: sample_subjects of a profile is the first min(5, n) non-empty subjects of its
\* sender's messages in arrival order, n being the number of those messages with a
\* non-empty subject; empty subjects take no slot and duplicates stay.
C15_SampleSubjectsAreFirstFiveNonEmpty ==
    Grouping =>
      \A i \in DOMAIN scan_senders :
         LET Mine(m) == m.sender_email = scan_senders[i].email /\ m.subject # ""
             mine == SelectSeq(Processed, Mine)
             n == Len(mine)
             take == IF n < 5 THEN n ELSE 5
         IN  scan_senders[i].sample_subjects = [k \in 1..take |-> mine[k].subject]

C15_Witness ==
    /\ scan_pc = "score" /\ Len(responses) = 8
    /\ scan_senders[1].message_count = 8
    /\ scan_senders[1].sample_subjects = <<"hi", "hi", "b1", "b2", "b3">>
    /\ scan_messages[2].subject = ""

\* C16: every application of score_all_senders keeps the keys and, in every profile,
\* email, name, message_count, messages and sample_subjects; an application after the
\* first changes nothing at all, so the scores are those of the first application.
C16_ScoreAllIdempotentTouchesOnlyScore ==
    [][ score_passes' = score_passes + 1 =>
          /\ Len(scan_senders') = Len(scan_senders)
          /\ \A i \in DOMAIN scan_senders :
                /\ scan_senders'[i].email = scan_senders[i].email
                /\ scan_senders'[i].name = scan_senders[i].name
                /\ scan_senders'[i].message_count = scan_senders[i].message_count
                /\ scan_senders'[i].messages = scan_senders[i].messages
                /\ scan_senders'[i].sample_subjects = scan_senders[i].sample_subjects
          /\ score_passes >= 1 => scan_senders' = scan_senders ]_vars

C16_Witness ==
    /\ score_passes = 2 /\ Len(scan_senders) = 2
    /\ scan_senders[1].score = 55 /\ scan_senders[2].score = 0
    /\ scan_senders[1].message_count = 2

\* The ids of the messages a profile holds.
IdSetOf(p) == {p.messages[k].message_id : k \in DOMAIN p.messages}

\* C17: the scan result that a scan saved comes back from load_latest_scan() with the
\* same total_messages and query, the same sender keys and, per sender, the same name,
\* message_count, score, sample_subjects and set of message ids.
C17_SaveThenLoadRoundTrip ==
    scan_pc = "end" =>
      /\ scan_loaded # Nothing
      /\ scan_loaded.total_messages = scan_saved.total_messages
      /\ scan_loaded.query = scan_saved.query
      /\ Len(scan_loaded.senders) = Len(scan_saved.senders)
      /\ \A i \in DOMAIN scan_saved.senders :
            \E j \in DOMAIN scan_loaded.senders :
               LET was == scan_saved.senders[i]
                   is == scan_loaded.senders[j]
               IN  /\ is.email = was.email
                   /\ is.name = was.name
                   /\ is.message_count = was.message_count
                   /\ is.score = was.score
                   /\ is.sample_subjects = was.sample_subjects
                   /\ IdSetOf(is) = IdSetOf(was)

C17_Witness ==
    /\ scan_pc = "end" /\ Len(saved) = 2 /\ saved[1] = "t1"
    /\ scan_query = "older_than:1y"
    /\ Len(scan_loaded.senders) = 2
    /\ scan_loaded.senders[1].score = 55
    /\ Len(scan_loaded.senders[1].sample_subjects) = 2
    /\ scan_loaded.total_messages = 3

\* The saved scan results a load with the given filter can return: all of them when
\* there is no filter, else those whose query is the filter.
SavedCacheScan(k) == CHOOSE sr \in CacheScans : sr.scan_date = saved[k]

MatchingSaves(query) ==
    {k \in DOMAIN saved : query = None \/ SavedCacheScan(k).query = query}

LatestOf(S) == CHOOSE k \in S : \A o \in S : o <= k

SameSnapshot(got, sr) ==
    /\ got # Nothing
    /\ got.total_messages = sr.total_messages
    /\ got.query = sr.query
    /\ got.scan_date = sr.scan_date
    /\ Len(got.senders) = Len(sr.senders)
    /\ \A i \in DOMAIN sr.senders :
          \E j \in DOMAIN got.senders :
             /\ got.senders[j].email = sr.senders[i].email
             /\ got.senders[j].name = sr.senders[i].name
             /\ got.senders[j].message_count = sr.senders[i].message_count
             /\ got.senders[j].score = sr.senders[i].score
             /\ {got.senders[j].messages[k].message_id : k \in DOMAIN got.senders[j].messages}
                   = {sr.senders[i].messages[k].message_id : k \in DOMAIN sr.senders[i].messages}

\* C18: load_latest_scan(q) returns the most recently saved scan result whose query is
\* exactly q, also when results with other queries were saved after it, and
\* load_latest_scan() returns the most recently saved one of all.
C18_LoadReturnsLatestMatchingSnapshot ==
    (cache_call.op = "load" /\ MatchingSaves(cache_call.arg) # {}) =>
        SameSnapshot(cache_call.out, SavedCacheScan(LatestOf(MatchingSaves(cache_call.arg))))

C18_Witness ==
    /\ cache_call.op = "load" /\ cache_call.arg = ""
    /\ Len(saved) = 3
    /\ saved = <<"c3", "c1", "c2">>
    /\ cache_call.out.total_messages = 3

\* C19: load_latest_scan returns None exactly when no saved scan result matches: on a
\* fresh cache, after clear(), and for a query no saved result has; a saved result is
\* returned as a ScanResult even when it is empty; on a fresh or cleared cache
\* get_message_ids_for_sender returns the empty list for every address.
C19_NotFoundIsExplicit ==
    /\ cache_call.op = "load" =>
          (cache_call.out = Nothing <=> MatchingSaves(cache_call.arg) = {})
    /\ (cache_call.op = "ids" /\ saved = <<>>) => cache_call.out = <<>>
    /\ saved = <<>> =>
          /\ \A q \in LoadQueryChoices : load_latest_scan(db, q) = Nothing
          /\ \A e \in AddressChoices : get_message_ids_for_sender(db, e) = <<>>

C19_Witness ==
    /\ cache_call.op = "load" /\ cache_call.arg = None /\ cache_call.out = Nothing
    /\ dropped = 3 /\ saved = <<>>

\* The ids of the messages that the scan result sr records for the address, in the
\* order of the result.
RECURSIVE RecordedIds(_, _)
RecordedIds(profiles_of_scan, email) ==
    IF profiles_of_scan = <<>> THEN <<>>
    ELSE LET From(m) == m.sender_email = email
             hits == SelectSeq(profiles_of_scan[1].messages, From)
         IN  [k \in DOMAIN hits |-> hits[k].message_id]
             \o RecordedIds(Tail(profiles_of_scan), email)

RECURSIVE ConcatRecorded(_, _)
ConcatRecorded(profiles_of_scan, emails) ==
    IF emails = <<>> THEN <<>>
    ELSE RecordedIds(profiles_of_scan, emails[1])
         \o ConcatRecorded(profiles_of_scan, Tail(emails))

\* The scan result whose save is the latest of the history.
WorkflowScans == UNION {Range(h) : h \in WorkflowHistories}

LatestWorkflowScan == CHOOSE sr \in WorkflowScans : sr.scan_date = saved[Len(saved)]

\* C20: the ids resolved by the cleanup workflow are, for each selected sender in
\* selection order, exactly the ids recorded for that address in the most recently
\* saved scan result, whatever its query, and none of an older result.
C20_ResolvedIdsComeFromLatestSnapshot ==
    /\ (pc \in {"confirm", "trash", "returned", "raised"} \/ (pc = "done" /\ selected # <<>>))
          => all_message_ids = ConcatRecorded(LatestWorkflowScan.senders, selected)
    /\ pc \in {"select", "confirm"} =>
          \A i \in DOMAIN scan_result.senders :
             get_message_ids_for_sender(db, scan_result.senders[i].email)
                = RecordedIds(LatestWorkflowScan.senders, scan_result.senders[i].email)

C20_Witness ==
    /\ pc = "done" /\ saved[2] = "t1"
    /\ selected = <<"noreply@example-newsletter.com">>
    /\ all_message_ids = <<40001>>

(***************************************************************************)
(* The retried batch calls.                                                *)
(***************************************************************************)
\* One execution of a batch, from the locals b before it to the locals a after it,
\* a.status being the status it was answered with and pc_after the place the
\* operation stands at afterwards (loop: about to execute a batch).
RetriedAsStated(b, a, pc_after, loop) ==
    \/ /\ a.status = 200
       /\ a.batch_num = b.batch_num + 1 /\ a.attempt = 1 /\ a.error = 0
       /\ pc_after = IF a.batch_num < a.total_batches THEN loop ELSE "returned"
    \/ /\ a.status \in {429, 500, 503} /\ b.attempt < 5
       /\ a.batch_num = b.batch_num /\ a.attempt = b.attempt + 1 /\ a.error = 0
       /\ pc_after = loop
    \/ /\ a.status \in {429, 500, 503} /\ b.attempt = 5
       /\ a.batch_num = b.batch_num /\ a.attempt = 5 /\ a.error = a.status
       /\ pc_after = "raised"
    \/ /\ a.status \notin {200, 429, 500, 503}
       /\ a.batch_num = b.batch_num /\ a.attempt = b.attempt /\ a.error = a.status
       /\ pc_after = "raised"

\* C21: a metadata-fetch batch or a discard batch answered with 429, 500 or 503 is
\* executed again, up to 5 executions of the batch in all; an execution that succeeds
\* moves the operation to the next batch (or to its return after the last one); the
\* fifth transient failure, and the first failure with any other status, ends the
\* operation with that error, and once it has ended so no further batch is executed.
C21_TransientErrorsRetriedFiveTimes ==
    [][ /\ pc # "raised" /\ fetch_pc # "raised"
        /\ pc = "trash" => RetriedAsStated(trash, trash', pc', "trash")
        /\ fetch_pc = "batch" => RetriedAsStated(fetch, fetch', fetch_pc', "batch")
        /\ Len(trash'.submitted) = (IF pc = "trash" THEN trash.batch_num + 1 ELSE 0)
        /\ Len(fetch'.submitted) = (IF fetch_pc = "batch" THEN fetch.batch_num + 1 ELSE 0)
      ]_vars

\* The second fetch batch has failed five times with a transient status after the
\* first one had succeeded.
C21_Witness ==
    /\ fetch_pc = "raised" /\ fetch.error = 503 /\ fetch.attempt = 5
    /\ fetch.batch_num = 1 /\ Len(fetch.submitted) = 2 /\ Len(fetch.callbacks) = 1

(***************************************************************************)
(* fetch_message_metadata.                                                 *)
(***************************************************************************)
\* The number of requested ids whose batch has been executed.
FetchedSoFar == Min(fetch.batch_num * 50, Len(fetch_responses))

ResultsFor(id) == {k \in DOMAIN fetch.results : fetch.results[k].message_id = id}

\* C22: at every point of a fetch the result holds exactly one MessageMeta for each
\* requested id of an executed batch whose own response succeeded and none for any
\* other id, so never more than the ids requested; a failed message does not end the
\* fetch (it ends only with the error of a batch request); every batch has at most 50
\* ids, and the progress callback has been called once per executed batch with
\* (number of the batch, number of batches).
C22_FailedMessageSkippedAlone ==
    fetch_pc \in {"batch", "returned", "raised"} =>
       /\ \A id \in DOMAIN fetch_responses :
             Cardinality(ResultsFor(id)) =
                 IF id <= FetchedSoFar /\ fetch_responses[id].ok THEN 1 ELSE 0
       /\ \A k \in DOMAIN fetch.results :
             fetch.results[k].message_id \in DOMAIN fetch_responses
       /\ Len(fetch.results) <= Len(fetch_responses)
       /\ fetch_pc = "raised" => fetch.status # 200 /\ fetch.error = fetch.status
       /\ fetch_pc = "returned" => FetchedSoFar = Len(fetch_responses)
       /\ \A b \in DOMAIN fetch.submitted :
             /\ Len(fetch.submitted[b]) <= 50
             /\ fetch.submitted[b] # <<>>
       /\ IsPrefix(Flatten(fetch.submitted), [i \in DOMAIN fetch_responses |-> i])
       /\ fetch.callbacks =
             [b \in 1..fetch.batch_num |-> <<b, (Len(fetch_responses) + 49) \div 50>>]

\* 101 ids were requested, some of every batch failed, and the fetch has returned the
\* others after three progress calls.
C22_Witness ==
    /\ fetch_pc = "returned"
    /\ Len(fetch_responses) = 101
    /\ ~fetch_responses[1].ok /\ ~fetch_responses[51].ok /\ ~fetch_responses[101].ok
    /\ Len(fetch.results) = 98
    /\ fetch.callbacks = << <<1, 3>>, <<2, 3>>, <<3, 3>> >>

(***************************************************************************)
(* list_message_ids.                                                       *)
(***************************************************************************)
\* The whole listing the provider holds, in provider order.
RECURSIVE AllListed(_)
AllListed(ps) == IF ps = <<>> THEN <<>> ELSE ps[1].messages \o AllListed(Tail(ps))

\* The number of pages that must be requested to see the first want ids.
PagesNeeded(want) ==
    LET enough == {k \in DOMAIN pages : Len(AllListed(SubSeq(pages, 1, k))) >= want}
    IN  IF enough = {} THEN Len(pages)
        ELSE CHOOSE k \in enough : \A h \in enough : k <= h

\* C23: list_message_ids called with a limit L returns the first L ids of the listing
\* (all of them when there are fewer), so at most L ids, and requests no page after
\* the one on which the L-th id arrived; called without a limit it returns the ids of
\* every page up to the first one without a next-page token.
C23_LimitCapsTheListing ==
    list_pc = "returned" =>
       IF max_results = <<>>
       THEN /\ listing.out = AllListed(pages)
            /\ listing.page = Len(pages)
       ELSE /\ Len(listing.out) <= max_results[1]
            /\ listing.out = SubSeq(AllListed(pages), 1,
                                     Min(max_results[1], Len(AllListed(pages))))
            /\ max_results[1] >= 1 => listing.page = PagesNeeded(max_results[1])

(***************************************************************************)
(* scan_mailbox and the cache.                                             *)
(***************************************************************************)
\* The query string the call stands for: the empty string when none was given.
WantedQuery == IF scan_query = None THEN "" ELSE scan_query

\* The snapshots the cache held when scan_mailbox was called are the first
\* PriorSnapshots rows of scan_metadata; MatchingPrior are those of the wanted query.
PriorSnapshots == Len(saved) - scan_call.saves

MatchingPrior == {k \in 1..PriorSnapshots : db.scan_metadata[k].query = WantedQuery}

PriorScan(k) ==
    CHOOSE sr \in {OlderScan, ScanOfPool({3})} : sr.scan_date = db.scan_metadata[k].scan_date

\* C24: a call of scan_mailbox with use_cache set that finds a snapshot stored under
\* the wanted query returns the latest such snapshot and neither lists, fetches nor
\* saves; every other call lists the ids and, when it returns, has saved exactly one
\* new snapshot, which is the result it returns, also when no id was listed (then
\* with total_messages 0 and no sender).
C24_CacheHitSkipsTheScan ==
    /\ scan_pc = "cached" =>
          /\ scan_call.use_cache /\ MatchingPrior # {}
          /\ SameSnapshot(scan_call.returned, PriorScan(LatestOf(MatchingPrior)))
          /\ scan_call.lists = 0 /\ scan_call.fetches = 0 /\ scan_call.saves = 0
          /\ Len(db.scan_metadata) = PriorSnapshots
    /\ scan_pc \in {"fetch", "group", "score", "raised", "load", "end"} =>
          /\ ~(scan_call.use_cache /\ MatchingPrior # {})
          /\ scan_call.lists = 1
    /\ scan_pc \in {"fetch", "group", "score", "raised"} => scan_call.saves = 0
    /\ scan_pc \in {"load", "end"} =>
          /\ scan_call.saves = 1
          /\ Len(db.scan_metadata) = PriorSnapshots + 1
          /\ \A k \in 1..PriorSnapshots :
                db.scan_metadata[k].scan_date \in {"t1", "t2 {3}"}
          /\ db.scan_metadata[PriorSnapshots + 1].scan_date = scan_call.returned.scan_date
          /\ scan_call.returned = scan_saved
          /\ scan_call.returned.query = WantedQuery
          /\ scan_call.fetches = (IF responses = <<>> THEN 0 ELSE 1)
          /\ responses = <<>> =>
                scan_call.returned.total_messages = 0 /\ scan_call.returned.senders = <<>>

\* With use_cache set, the call for "older_than:1y" has returned the older snapshot of
\* that query although a scan under another query was saved after it.
C24_Witness ==
    /\ scan_pc = "cached"
    /\ scan_query = "older_than:1y"
    /\ saved = <<"t1", "t2 {3}">>
    /\ scan_call.returned.scan_date = "t1"
    /\ responses # <<>>

(***************************************************************************)
(* The cache is append-only.                                               *)
(***************************************************************************)
\* C25: a save adds one snapshot under a new id and leaves every stored row as it
\* was, so each query other than the saved one still loads the snapshot it loaded
\* before; a load and an id lookup change nothing; rows disappear only in clear(),
\* which leaves none.
C25_SnapshotsAreAppendOnly ==
    [][ LET op == cache_call'.op
        IN  /\ op # "clear" =>
                  /\ IsPrefix(db.scan_metadata, db'.scan_metadata)
                  /\ IsPrefix(db.senders, db'.senders)
                  /\ IsPrefix(db.messages, db'.messages)
            /\ op = "save" =>
                  /\ Len(db'.scan_metadata) = Len(db.scan_metadata) + 1
                  /\ \A k \in DOMAIN db.scan_metadata :
                        db.scan_metadata[k].id # db'.scan_metadata[Len(db'.scan_metadata)].id
                  /\ \A q \in LoadQueryChoices \ {None, cache_call'.arg} :
                        load_latest_scan(db', q) = load_latest_scan(db, q)
            /\ op \in {"load", "ids"} => db' = db
            /\ op = "clear" =>
                  /\ db'.scan_metadata = <<>> /\ db'.senders = <<>> /\ db'.messages = <<>>
                  /\ \A q \in LoadQueryChoices : load_latest_scan(db', q) = Nothing
      ]_vars

\* Three saves have been made, the second under "older_than:1y" and the third, like
\* the first, under ""; the second is still what its query loads.
C25_Witness ==
    /\ saved = <<"c1", "c2", "c3">>
    /\ cache_call.op = "save"
    /\ Len(db.scan_metadata) = 3
    /\ load_latest_scan(db, "older_than:1y").scan_date = "c2"
    /\ load_latest_scan(db, "").scan_date = "c3"

(***************************************************************************)
(* The audit record of what was discarded.                                 *)
(***************************************************************************)
\* The ids recorded by the audit entries this run has written.
AuditedByRun ==
    UNION { Range(trash_log.entries[k].message_ids) :
               k \in (Len(log_before.entries) + 1)..Len(trash_log.entries) }

\* C26: when a run of the cleanup workflow has ended, by returning or with the error
\* of a discard batch, every message id of a batch the provider acknowledged is
\* recorded in an audit-log entry written by the run.
C26_AcknowledgedIdsAreAudited ==
    pc \in {"done", "raised"} => Range(Flatten(acked)) \subseteq AuditedByRun

(***************************************************************************)
(* Repeated indices in a selection.                                        *)
(***************************************************************************)
NoRepeats(seq) == Cardinality(Range(seq)) = Len(seq)

\* C27: whatever selection was accepted, no sender occurs twice among the selected
\* senders and no message id occurs twice in the list resolved for the discard, so
\* the reported selected_senders and total_messages are the numbers of distinct
\* senders and distinct messages, and trashed never exceeds the latter.
C27_NothingSelectedTwice ==
    selected # <<>> =>
       /\ NoRepeats(selected)
       /\ NoRepeats(all_message_ids)
       /\ NoRepeats(Flatten(trash.submitted))
       /\ result # Nothing =>
             /\ result.selected_senders = Cardinality(Range(selected))
             /\ result.total_messages = Cardinality(Range(all_message_ids))
             /\ result.trashed <= Cardinality(Range(all_message_ids))

(***************************************************************************)
(* The total shown at the confirmation.                                    *)
(***************************************************************************)
\* C28: when the workflow asks for the confirmation, the total it shows, the sum of
\* message_count over the selected profiles of the scan result it was handed
\* (display.py 114), is the number of message ids it has resolved from the cache and
\* will hand to trash_messages, whichever scan result it was handed and whatever
\* was saved before.
C28_ConfirmedTotalIsSubmittedTotal ==
    pc = "confirm" =>
       SumCounts(ProfilesOf(scan_result, selected)) = Len(all_message_ids)
====
